---- MODULE Spec2Model ----
(***************************************************************************)
(* A model of the multi-base optimizer: the PYNQ register driver           *)
(* (src/fpga/python/pynq_optimizer_driver.py) and the CPU optimizer        *)
(* (src/backend/optimizer_service/optimizer/multi_base_optimizer.py).      *)
(*                                                                         *)
(* Numbers.  TLC's integers are 32 bits wide, the driver's fixed-point     *)
(* values are 48 bits wide.  A 32-bit register word is therefore kept as   *)
(* a pair <<hi, lo>> of 16-bit limbs, and a price as sign, integer part,   *)
(* two 16-bit limbs of the 32 fractional bits and a flag for a residue     *)
(* below 2^-32.  Python floats are modelled by exact arithmetic.           *)
(***************************************************************************)
EXTENDS Integers, Sequences, FiniteSets, TLC

VARIABLES
    \* ---- the driver object (MultiBaseOptimizer) and its peripheral ----
    simulation_mode,   \* self.simulation_mode
    mmio,              \* self.mmio: "none", or "ok" once MMIO(...) was created
    mem,               \* the register image behind self.mmio: offset -> word
    dev,               \* the accelerator core: its phase and latched inputs
    now,               \* time.time(), in ticks of the poll interval (100 us)
    call,              \* per caller: the frame of its optimize() call
    \* ---- the fixed-point codec exercised alone ----
    price,             \* the float handed to _write_price
    decoded,           \* what _read_price returned
    codec_pc,          \* "start" -> "written" -> "read"
    \* ---- the CPU optimizer (MultiBaseCalculator, HFTOptimizer) ----
    value,             \* the argument of optimal_base_for_value
    base,              \* what optimal_base_for_value returned
    performance_stats, \* HFTOptimizer.performance_stats
    result,            \* what the last optimize_price_levels call returned
    request,           \* the arguments of that call
    stats,             \* what get_performance_stats returned
    \* ---- the calculator's other functions exercised alone ----
    dozenal_str,       \* the string to_dozenal returned / from_dozenal is given
    parsed,            \* what from_dozenal returned or raised
    sizing,            \* the arguments of calculate_optimal_quantity
    optimal_quantity,  \* what calculate_optimal_quantity returned
    depth,             \* the arguments of estimate_slippage
    slippage,          \* what estimate_slippage returned
    calc_pc            \* "off", or the position of the function under study

vars == <<simulation_mode, mmio, mem, dev, now, call, price, decoded, codec_pc,
          value, base, performance_stats, result, request, stats,
          dozenal_str, parsed, sizing, optimal_quantity, depth, slippage,
          calc_pc>>

driverVars == <<simulation_mode, mmio, mem, dev, now, call>>
codecVars == <<price, decoded, codec_pc>>
cpuVars == <<value, base, performance_stats, result, request, stats>>
calcVars == <<dozenal_str, parsed, sizing, optimal_quantity, depth, slippage,
          calc_pc>>

----------------------------------------------------------------------------
(* The register map, pynq_optimizer_driver.py lines 41-65.                 *)

REG_CONTROL == 0
REG_STATUS == 4
REG_BID_PRICE_H == 8
REG_BID_PRICE_L == 12
REG_ASK_PRICE_H == 16
REG_ASK_PRICE_L == 20
REG_LAST_PRICE_H == 24
REG_LAST_PRICE_L == 28
REG_BID_SIZE == 32
REG_ASK_SIZE == 36
REG_BASE_SELECT == 40
REG_RISK_LIMIT == 44
REG_LATENCY_BUDG == 48
REG_STRATEGY_ID == 52
REG_RESULT_PRICE_H == 56
REG_RESULT_PRICE_L == 60
REG_EXIT_PRICE_H == 64
REG_EXIT_PRICE_L == 68
REG_QUANTITY == 72
REG_EXPECTED_PROFIT == 76
REG_CONFIDENCE == 80
REG_BASE_USED == 84
REG_CYCLES_TAKEN == 88
REG_BASE12_ADV == 92
REG_COMP_PER_SEC == 96

InputRegs ==
    {REG_BID_PRICE_H, REG_BID_PRICE_L, REG_ASK_PRICE_H, REG_ASK_PRICE_L,
     REG_LAST_PRICE_H, REG_LAST_PRICE_L, REG_BID_SIZE, REG_ASK_SIZE,
     REG_BASE_SELECT, REG_RISK_LIMIT, REG_LATENCY_BUDG, REG_STRATEGY_ID}

ResultRegs ==
    {REG_RESULT_PRICE_H, REG_RESULT_PRICE_L, REG_EXIT_PRICE_H, REG_EXIT_PRICE_L,
     REG_QUANTITY, REG_EXPECTED_PROFIT, REG_CONFIDENCE, REG_BASE_USED,
     REG_CYCLES_TAKEN, REG_BASE12_ADV, REG_COMP_PER_SEC}

Regs == {REG_CONTROL, REG_STATUS} \cup InputRegs \cup ResultRegs

----------------------------------------------------------------------------
(* 32-bit words as two 16-bit limbs.                                       *)

Limb == 65536

\* value & 0xFFFFFFFF for an integer in TLC's range (two's complement for a
\* negative one, as Python's & gives).
Mask32(v) == <<(v \div Limb) % Limb, v % Limb>>

ZeroWord == <<0, 0>>

\* word & 0xFFFF
Low16(w) == w[2]

\* (word & 0x01) != 0 and (word & 0x10000) != 0
Bit0(w) == w[2] % 2 = 1
Bit16(w) == w[1] % 2 = 1

----------------------------------------------------------------------------
(* Prices.  [neg, ip, fh, fl, sub] is the real number                      *)
(*   (-1)^neg * (ip + (fh*2^16 + fl + e) / 2^32),  0 < e < 1 iff sub.      *)

MaxSmallInt == 2

IntParts == (0 .. MaxSmallInt) \cup {32767, 32768, 65535, 65536, 65537}

FracLimbs == {0, 1, 32768, 65535}

IsZeroPrice(p) == p.ip = 0 /\ p.fh = 0 /\ p.fl = 0 /\ ~p.sub

Prices ==
    {p \in [neg : BOOLEAN, ip : IntParts, fh : FracLimbs, fl : FracLimbs,
            sub : BOOLEAN] : p.neg => ~IsZeroPrice(p)}

\* int(price * (2**32)): the product is exact, int() truncates toward zero.
\* The result is the signed integer (-1)^neg * (ip*2^32 + fh*2^16 + fl).
ToFixed(p) ==
    LET zero == p.ip = 0 /\ p.fh = 0 /\ p.fl = 0
    IN  [neg |-> p.neg /\ ~zero, ip |-> p.ip, fh |-> p.fh, fl |-> p.fl]

\* fixed_price >> 32: Python's shift floors, also for a negative integer.
ShiftRight32(x) ==
    IF ~x.neg THEN x.ip
    ELSE IF x.fh = 0 /\ x.fl = 0 THEN -x.ip ELSE -x.ip - 1

\* fixed_price & 0xFFFFFFFF: the low 32 bits of the two's complement.
And32(x) ==
    IF ~x.neg THEN <<x.fh, x.fl>>
    ELSE IF x.fl = 0
         THEN <<(Limb - x.fh) % Limb, 0>>
         ELSE <<Limb - 1 - x.fh, Limb - x.fl>>

\* _write_price's two words: price_h = (fixed_price >> 32) & 0xFFFF and
\* price_l = fixed_price & 0xFFFFFFFF.
EncodePrice(p) ==
    LET fixed_price == ToFixed(p)
    IN  [h |-> <<0, ShiftRight32(fixed_price) % Limb>>,
         l |-> And32(fixed_price)]

\* a decoder that takes bit 15 of the high word as the sign of a 48-bit
\* two's-complement number
DecodePrice_SignExtended(price_h, price_l) ==
    IF Low16(price_h) < Limb \div 2
    THEN [neg |-> FALSE, ip |-> Low16(price_h), fh |-> price_l[1],
          fl |-> price_l[2], sub |-> FALSE]
    ELSE IF price_l = ZeroWord
    THEN [neg |-> TRUE, ip |-> Limb - Low16(price_h), fh |-> 0, fl |-> 0,
          sub |-> FALSE]
    ELSE [neg |-> TRUE, ip |-> Limb - 1 - Low16(price_h),
          fh |-> IF price_l[2] = 0 THEN Limb - price_l[1]
                 ELSE Limb - 1 - price_l[1],
          fl |-> (Limb - price_l[2]) % Limb, sub |-> FALSE]

\* _read_price: ((price_h & 0xFFFF) << 32) | price_l, divided by 2^32.
DecodePrice(price_h, price_l) ==
    [neg |-> FALSE, ip |-> Low16(price_h), fh |-> price_l[1], fl |-> price_l[2],
     sub |-> FALSE]

----------------------------------------------------------------------------
(* Distance between a price and a decoded price, in units of 2^-32.        *)
(* A price is P + r units, P an integer kept as <<integer part, fh, fl>>   *)
(* (floor form) and 0 <= r < 1.                                            *)

SuccUnits(u) ==
    IF u[3] < Limb - 1 THEN <<u[1], u[2], u[3] + 1>>
    ELSE IF u[2] < Limb - 1 THEN <<u[1], u[2] + 1, 0>>
    ELSE <<u[1] + 1, 0, 0>>

PredUnits(u) ==
    IF u[3] > 0 THEN <<u[1], u[2], u[3] - 1>>
    ELSE IF u[2] > 0 THEN <<u[1], u[2] - 1, Limb - 1>>
    ELSE <<u[1] - 1, Limb - 1, Limb - 1>>

FloorUnits(p) ==
    LET x == [neg |-> p.neg, ip |-> p.ip, fh |-> p.fh, fl |-> p.fl]
        u == <<ShiftRight32(x), And32(x)[1], And32(x)[2]>>
    IN  IF p.neg /\ p.sub THEN PredUnits(u) ELSE u

\* |p - d| <= 2^-32, for d a multiple of 2^-32.
WithinQuantum(p, d) ==
    LET P == FloorUnits(p)
        D == FloorUnits(d)
    IN  IF p.sub
        THEN P = D \/ SuccUnits(P) = D
        ELSE P = D \/ SuccUnits(P) = D \/ SuccUnits(D) = P

\* |price| < 2^16
InRange(p) == p.ip < Limb

----------------------------------------------------------------------------
(* The driver's register access.                                           *)

NoPrice == [neg |-> FALSE, ip |-> 0, fh |-> 0, fl |-> 0, sub |-> FALSE]

ZeroMem == [r \in Regs |-> ZeroWord]

\* _write_reg: nothing in simulation mode, else self.mmio.write(offset, word).
WriteReg(m, offset, w) ==
    IF simulation_mode THEN m ELSE [m EXCEPT ![offset] = w]

\* _read_reg: 0 in simulation mode, else self.mmio.read(offset).
ReadReg(m, offset) ==
    IF simulation_mode THEN ZeroWord ELSE m[offset]

\* _write_price: the high word, then the low word.
WritePrice(m, reg_h, reg_l, p) ==
    WriteReg(WriteReg(m, reg_h, EncodePrice(p).h), reg_l, EncodePrice(p).l)

\* _read_price
ReadPrice(m, reg_h, reg_l) ==
    DecodePrice(ReadReg(m, reg_h), ReadReg(m, reg_l))

----------------------------------------------------------------------------
(* Exact rationals <<numerator, denominator>>, denominator > 0, for the    *)
(* CPU optimizer's float arithmetic.                                       *)

RECURSIVE Gcd(_, _)
Gcd(a, b) == IF b = 0 THEN a ELSE Gcd(b, a % b)

Abs(n) == IF n < 0 THEN -n ELSE n

Norm(q) ==
    LET g == Gcd(Abs(q[1]), q[2])
    IN  <<q[1] \div g, q[2] \div g>>

RAdd(a, b) == Norm(<<a[1] * b[2] + b[1] * a[2], a[2] * b[2]>>)
RSub(a, b) == Norm(<<a[1] * b[2] - b[1] * a[2], a[2] * b[2]>>)
RMul(a, b) == Norm(<<a[1] * b[1], a[2] * b[2]>>)
RDivInt(a, k) == Norm(<<a[1], a[2] * k>>)
RAbs(a) == <<Abs(a[1]), a[2]>>

\* int(x) for x >= 0
RFloor(a) == a[1] \div a[2]

\* A price given in cents.
Cents(c) == Norm(<<c, 100>>)

----------------------------------------------------------------------------
(* MultiBaseCalculator.optimal_base_for_value                              *)

BINARY == "BINARY"
DECIMAL == "DECIMAL"
DOZENAL == "DOZENAL"

\* Python's a & b for non-negative integers
RECURSIVE BitAnd(_, _)
BitAnd(a, b) ==
    IF a = 0 \/ b = 0 THEN 0
    ELSE (a % 2) * (b % 2) + 2 * BitAnd(a \div 2, b \div 2)

\* sum([...]) of booleans
BoolSum(bs) == Cardinality({i \in DOMAIN bs : bs[i]})

\* cents = int(abs(value) * 100)
CentsOf(v) == RFloor(RMul(RAbs(v), <<100, 1>>))

\* the divisibility rule tried before the power-of-two rule
BaseForCents_SwappedRules(cents) ==
    IF cents = 0 THEN DECIMAL
    ELSE IF cents % 12 = 0 \/ cents % 6 = 0 \/ cents % 4 = 0 THEN DOZENAL
    ELSE IF cents > 0 /\ BitAnd(cents, cents - 1) = 0 THEN BINARY
    ELSE IF cents % 10 = 0 THEN DECIMAL
    ELSE LET base12_score ==
                 BoolSum(<<cents % 2 = 0, cents % 3 = 0, cents % 4 = 0,
                           cents % 6 = 0>>)
         IN  IF base12_score >= 2 THEN DOZENAL ELSE DECIMAL

\* the cents % 10 rule tried before the divisibility rule
BaseForCents_TenFirst(cents) ==
    IF cents = 0 THEN DECIMAL
    ELSE IF cents > 0 /\ BitAnd(cents, cents - 1) = 0 THEN BINARY
    ELSE IF cents % 10 = 0 THEN DECIMAL
    ELSE IF cents % 12 = 0 \/ cents % 6 = 0 \/ cents % 4 = 0 THEN DOZENAL
    ELSE LET base12_score ==
                 BoolSum(<<cents % 2 = 0, cents % 3 = 0, cents % 4 = 0,
                           cents % 6 = 0>>)
         IN  IF base12_score >= 2 THEN DOZENAL ELSE DECIMAL

\* the divisibility rule without its cents % 4 test
BaseForCents_NoQuarter(cents) ==
    IF cents = 0 THEN DECIMAL
    ELSE IF cents > 0 /\ BitAnd(cents, cents - 1) = 0 THEN BINARY
    ELSE IF cents % 12 = 0 \/ cents % 6 = 0 THEN DOZENAL
    ELSE IF cents % 10 = 0 THEN DECIMAL
    ELSE LET base12_score ==
                 BoolSum(<<cents % 2 = 0, cents % 3 = 0, cents % 4 = 0,
                           cents % 6 = 0>>)
         IN  IF base12_score >= 2 THEN DOZENAL ELSE DECIMAL

\* the score rule satisfied by a single divisor
BaseForCents_ScoreOne(cents) ==
    IF cents = 0 THEN DECIMAL
    ELSE IF cents > 0 /\ BitAnd(cents, cents - 1) = 0 THEN BINARY
    ELSE IF cents % 12 = 0 \/ cents % 6 = 0 \/ cents % 4 = 0 THEN DOZENAL
    ELSE IF cents % 10 = 0 THEN DECIMAL
    ELSE LET base12_score ==
                 BoolSum(<<cents % 2 = 0, cents % 3 = 0, cents % 4 = 0,
                           cents % 6 = 0>>)
         IN  IF base12_score >= 1 THEN DOZENAL ELSE DECIMAL

\* the rules on cents, in the order of the code
BaseForCents(cents) ==
    IF cents = 0 THEN DECIMAL
    ELSE IF cents > 0 /\ BitAnd(cents, cents - 1) = 0 THEN BINARY
    ELSE IF cents % 12 = 0 \/ cents % 6 = 0 \/ cents % 4 = 0 THEN DOZENAL
    ELSE IF cents % 10 = 0 THEN DECIMAL
    ELSE LET base12_score ==
                 BoolSum(<<cents % 2 = 0, cents % 3 = 0, cents % 4 = 0,
                           cents % 6 = 0>>)
         IN  IF base12_score >= 2 THEN DOZENAL ELSE DECIMAL

optimal_base_for_value(v) == BaseForCents(CentsOf(v))

----------------------------------------------------------------------------
(* HFTOptimizer: the per-base offsets and optimize_price_levels.  The      *)
(* dozenal_mid and dozenal_spread strings of a Dozenal result are not      *)
(* part of the record kept here.                                           *)

Strategies == {"market_making", "mean_reversion", "momentum", "arbitrage"}

Levels(mid_price, entry_offset, exit_offset, cycles_saved) ==
    [entry_price |-> RAdd(mid_price, entry_offset),
     exit_price |-> RAdd(mid_price, exit_offset),
     entry_offset |-> entry_offset,
     exit_offset |-> exit_offset,
     cycles_saved |-> cycles_saved]

\* market making priced with the default pair
optimize_dozenal_NoMarketMaking(bid, ask, last, spread, strategy) ==
    LET mid_price == RDivInt(RAdd(bid, ask), 2)
    IN  IF strategy = "mean_reversion"
        THEN Levels(mid_price, RDivInt(spread, 4), RDivInt(spread, 2), 15)
        ELSE Levels(mid_price, RDivInt(spread, 6), RDivInt(spread, 3), 15)

optimize_dozenal(bid, ask, last, spread, strategy) ==
    LET mid_price == RDivInt(RAdd(bid, ask), 2)
    IN  IF strategy = "market_making"
        THEN Levels(mid_price, RDivInt(spread, 12),
                    RDivInt(RMul(spread, <<11, 1>>), 12), 15)
        ELSE IF strategy = "mean_reversion"
        THEN Levels(mid_price, RDivInt(spread, 4), RDivInt(spread, 2), 15)
        ELSE Levels(mid_price, RDivInt(spread, 6), RDivInt(spread, 3), 15)

\* momentum falling through to the default pair
optimize_binary_NoMomentum(bid, ask, last, spread, strategy) ==
    LET mid_price == RDivInt(RAdd(bid, ask), 2)
    IN  IF strategy = "market_making"
        THEN Levels(mid_price, RDivInt(spread, 8),
                    RDivInt(RMul(spread, <<7, 1>>), 8), 20)
        ELSE Levels(mid_price, RDivInt(spread, 4), RDivInt(spread, 2), 20)

optimize_binary(bid, ask, last, spread, strategy) ==
    LET mid_price == RDivInt(RAdd(bid, ask), 2)
    IN  IF strategy = "market_making"
        THEN Levels(mid_price, RDivInt(spread, 8),
                    RDivInt(RMul(spread, <<7, 1>>), 8), 20)
        ELSE IF strategy = "momentum"
        THEN Levels(mid_price, RDivInt(spread, 16), RDivInt(spread, 4), 20)
        ELSE Levels(mid_price, RDivInt(spread, 4), RDivInt(spread, 2), 20)

optimize_decimal(bid, ask, last, spread, strategy) ==
    LET mid_price == RDivInt(RAdd(bid, ask), 2)
    IN  IF strategy = "market_making"
        THEN Levels(mid_price, RMul(spread, <<1, 10>>),
                    RMul(spread, <<9, 10>>), 0)
        ELSE IF strategy = "arbitrage"
        THEN Levels(mid_price, RMul(spread, <<5, 100>>),
                    RMul(spread, <<95, 100>>), 0)
        ELSE Levels(mid_price, RMul(spread, <<2, 10>>),
                    RMul(spread, <<8, 10>>), 0)

\* The counter optimize_price_levels increments for a base.
\* the binary branch counting as decimal
CounterOf_BinaryAsDecimal(b) ==
    IF b = DOZENAL THEN "base12_operations" ELSE "base10_operations"

CounterOf(b) ==
    IF b = DOZENAL THEN "base12_operations"
    ELSE IF b = BINARY THEN "base2_operations"
    ELSE "base10_operations"

\* What optimize_price_levels returns.
PriceLevels(bid, ask, last, strategy) ==
    LET mid_price == RDivInt(RAdd(bid, ask), 2)
        spread == RSub(ask, bid)
        b == optimal_base_for_value(mid_price)
        r == IF b = DOZENAL
             THEN optimize_dozenal(bid, ask, last, spread, strategy)
             ELSE IF b = BINARY
             THEN optimize_binary(bid, ask, last, spread, strategy)
             ELSE optimize_decimal(bid, ask, last, spread, strategy)
    IN  [entry_price |-> r.entry_price,
         exit_price |-> r.exit_price,
         entry_offset |-> r.entry_offset,
         exit_offset |-> r.exit_offset,
         cycles_saved |-> r.cycles_saved,
         base_used |-> b,
         mid_price |-> mid_price,
         spread |-> spread]

MaxOps == 2

BidCents == {3, 4, 12, 100, 256, 10025}

SpreadCents == {-2, 0, 2, 3}

TotalOps ==
    performance_stats["base12_operations"]
    + performance_stats["base10_operations"]
    + performance_stats["base2_operations"]

NoResult == [base_used |-> "none"]

NoRequest == [strategy |-> "none"]

NoStats == [total_operations |-> -1]

\* the call adding the cycles its result reports to the statistics
optimize_price_levels_AddsSavings(bid, ask, last, strategy) ==
    /\ TotalOps < MaxOps
    /\ result' = PriceLevels(bid, ask, last, strategy)
    /\ performance_stats' =
           [performance_stats EXCEPT
               ![CounterOf(result'.base_used)] = @ + 1,
               !["total_savings_cycles"] = @ + result'.cycles_saved]
    /\ request' = [bid |-> bid, ask |-> ask, last |-> last,
                   strategy |-> strategy]
    /\ UNCHANGED <<value, base, stats>>
    /\ UNCHANGED driverVars
    /\ UNCHANGED codecVars
    /\ UNCHANGED calcVars

optimize_price_levels(bid, ask, last, strategy) ==
    /\ TotalOps < MaxOps
    /\ result' = PriceLevels(bid, ask, last, strategy)
    /\ performance_stats' =
           [performance_stats EXCEPT ![CounterOf(result'.base_used)] = @ + 1]
    /\ request' = [bid |-> bid, ask |-> ask, last |-> last,
                   strategy |-> strategy]
    /\ UNCHANGED <<value, base, stats>>
    /\ UNCHANGED driverVars
    /\ UNCHANGED codecVars
    /\ UNCHANGED calcVars

----------------------------------------------------------------------------
(* The driver's optimize(): its arguments, frame and outcomes.             *)

Callers == {"c1", "c2"}

\* A float price, given as an exact fraction, as a price record (the
\* fraction is split into two 16-bit limbs and a residue).
PriceOf(q) ==
    LET a == Abs(q[1])
        t == (a % q[2]) * Limb
        u == (t % q[2]) * Limb
    IN  [neg |-> q[1] < 0, ip |-> a \div q[2], fh |-> t \div q[2],
         fl |-> u \div q[2], sub |-> u % q[2] # 0]

BASE_AUTO == 0
BASE_DOZENAL == 2
STRATEGY_MARKET_MAKING == 0
STRATEGY_MEAN_REVERSION == 1

\* Two calls: the driver's own example, and a second quote.
RequestA ==
    [bid_price |-> Cents(10025), ask_price |-> Cents(10028),
     last_price |-> Cents(10026),
     bid_size |-> 1000, ask_size |-> 1200, base_select |-> BASE_AUTO,
     risk_limit |-> 100000, latency_budget_ns |-> 1000,
     strategy_id |-> STRATEGY_MARKET_MAKING]

RequestB ==
    [bid_price |-> Cents(14400), ask_price |-> Cents(14412),
     last_price |-> Cents(14406),
     bid_size |-> 500, ask_size |-> 300, base_select |-> BASE_DOZENAL,
     risk_limit |-> 50000, latency_budget_ns |-> 2000,
     strategy_id |-> STRATEGY_MEAN_REVERSION]

Requests == {RequestA, RequestB}

MaxTimeoutMs == 1

TimeoutsMs == -1 .. MaxTimeoutMs

\* The clock counts poll intervals of 100 us: time.sleep(0.0001) is one tick,
\* a millisecond is ten.
TicksPerMs == 10
SleepTicks == 1
SimLatencyTicks == 10

MaxTime == 12

\* timeout_s = timeout_ms / 1000.0, in ticks
TimeoutTicks(timeout_ms) == timeout_ms * TicksPerMs

\* time.time() - start_time, restarted at each poll
Elapsed_SincePoll(f) == IF f.polls = 0 THEN now - f.start_time ELSE now - f.poll_at

\* time.time() - start_time
Elapsed(f) == now - f.start_time

\* The input registers without the strategy id
InputWrites_NoStrategy(a) ==
    <<<<REG_BID_PRICE_H, EncodePrice(PriceOf(a.bid_price)).h>>,
      <<REG_BID_PRICE_L, EncodePrice(PriceOf(a.bid_price)).l>>,
      <<REG_ASK_PRICE_H, EncodePrice(PriceOf(a.ask_price)).h>>,
      <<REG_ASK_PRICE_L, EncodePrice(PriceOf(a.ask_price)).l>>,
      <<REG_LAST_PRICE_H, EncodePrice(PriceOf(a.last_price)).h>>,
      <<REG_LAST_PRICE_L, EncodePrice(PriceOf(a.last_price)).l>>,
      <<REG_BID_SIZE, Mask32(a.bid_size)>>,
      <<REG_ASK_SIZE, Mask32(a.ask_size)>>,
      <<REG_BASE_SELECT, Mask32(a.base_select)>>,
      <<REG_RISK_LIMIT, Mask32(a.risk_limit)>>,
      <<REG_LATENCY_BUDG, Mask32(a.latency_budget_ns)>>>>

\* Lines 212-220: the register writes of the input parameters, in order.
InputWrites(a) ==
    <<<<REG_BID_PRICE_H, EncodePrice(PriceOf(a.bid_price)).h>>,
      <<REG_BID_PRICE_L, EncodePrice(PriceOf(a.bid_price)).l>>,
      <<REG_ASK_PRICE_H, EncodePrice(PriceOf(a.ask_price)).h>>,
      <<REG_ASK_PRICE_L, EncodePrice(PriceOf(a.ask_price)).l>>,
      <<REG_LAST_PRICE_H, EncodePrice(PriceOf(a.last_price)).h>>,
      <<REG_LAST_PRICE_L, EncodePrice(PriceOf(a.last_price)).l>>,
      <<REG_BID_SIZE, Mask32(a.bid_size)>>,
      <<REG_ASK_SIZE, Mask32(a.ask_size)>>,
      <<REG_BASE_SELECT, Mask32(a.base_select)>>,
      <<REG_RISK_LIMIT, Mask32(a.risk_limit)>>,
      <<REG_LATENCY_BUDG, Mask32(a.latency_budget_ns)>>,
      <<REG_STRATEGY_ID, Mask32(a.strategy_id)>>>>

\* Enable + Start
ControlStart == Mask32(3)
\* Enable
ControlEnable == Mask32(2)

\* Lines 236-244: the result registers, in the order they are read.
ResultReads ==
    <<REG_RESULT_PRICE_H, REG_RESULT_PRICE_L, REG_EXIT_PRICE_H,
      REG_EXIT_PRICE_L, REG_QUANTITY, REG_EXPECTED_PROFIT, REG_CONFIDENCE,
      REG_BASE_USED, REG_CYCLES_TAKEN, REG_BASE12_ADV, REG_COMP_PER_SEC>>

\* The integer a register word holds (words below 2^31).
WordVal(w) == w[1] * Limb + w[2]

NoArgs == [strategy_id |-> -1]

NoRet == [success |-> "none"]

IdleFrame ==
    [pc |-> "idle", args |-> NoArgs, timeout_ms |-> 0, start_time |-> 0,
     idx |-> 0, status |-> ZeroWord, got |-> <<>>, wake |-> 0,
     entered_at |-> 0, polls |-> 0, poll_at |-> 0, log |-> <<>>,
     ret |-> NoRet]

\* the timeout outcome carrying default result fields
TimeoutOutcome_Defaults ==
    [error |-> "Optimization timeout", success |-> FALSE,
     entry_price |-> NoPrice, exit_price |-> NoPrice, quantity |-> 0]

\* Line 233
TimeoutOutcome == [error |-> "Optimization timeout", success |-> FALSE]

base_names(id) ==
    IF id = 0 THEN "Binary"
    ELSE IF id = 1 THEN "Decimal"
    ELSE IF id = 2 THEN "Dozenal"
    ELSE "Unknown"

\* the success record with the confidence register taken as it is
SuccessOutcome_RawConfidence(f) ==
    [success |-> TRUE,
     entry_price |-> DecodePrice(f.got[1], f.got[2]),
     exit_price |-> DecodePrice(f.got[3], f.got[4]),
     quantity |-> WordVal(f.got[5]),
     expected_profit |-> WordVal(f.got[6]),
     confidence |-> Norm(<<WordVal(f.got[7]), 1>>),
     base_used |-> base_names(WordVal(f.got[8])),
     base_used_id |-> WordVal(f.got[8]),
     cycles_taken |-> WordVal(f.got[9]),
     base12_advantage_cycles |-> WordVal(f.got[10]),
     computations_per_sec |-> WordVal(f.got[11]),
     latency_us |-> (now - f.start_time) * 100,
     trade_signal |-> Bit16(f.status),
     spread |-> RSub(f.args.ask_price, f.args.bid_price),
     mid_price |-> RDivInt(RAdd(f.args.bid_price,
                                f.args.ask_price), 2)]

\* Lines 246-270: the record built from the values read (got, in the order
\* of ResultReads), the last status word and the arguments.
SuccessOutcome(f) ==
    [success |-> TRUE,
     entry_price |-> DecodePrice(f.got[1], f.got[2]),
     exit_price |-> DecodePrice(f.got[3], f.got[4]),
     quantity |-> WordVal(f.got[5]),
     expected_profit |-> WordVal(f.got[6]),
     confidence |-> Norm(<<WordVal(f.got[7]), 100>>),
     base_used |-> base_names(WordVal(f.got[8])),
     base_used_id |-> WordVal(f.got[8]),
     cycles_taken |-> WordVal(f.got[9]),
     base12_advantage_cycles |-> WordVal(f.got[10]),
     computations_per_sec |-> WordVal(f.got[11]),
     latency_us |-> (now - f.start_time) * 100,
     trade_signal |-> Bit16(f.status),
     spread |-> RSub(f.args.ask_price, f.args.bid_price),
     mid_price |-> RDivInt(RAdd(f.args.bid_price,
                                f.args.ask_price), 2)]

\* int(x): truncation toward zero
RTrunc(a) == IF a[1] >= 0 THEN a[1] \div a[2] ELSE -((-a[1]) \div a[2])

Min(a, b) == IF a < b THEN a ELSE b

\* the simulated result without its mode entry
SimulatedOutcome_NoMode(a) ==
    [success |-> TRUE, entry_price |-> a.bid_price,
     exit_price |-> a.ask_price, quantity |-> 0, expected_profit |-> 0,
     confidence |-> <<171, 2>>, base_used |-> "Dozenal", base_used_id |-> 2,
     cycles_taken |-> 125, base12_advantage_cycles |-> 15,
     computations_per_sec |-> 800000, latency_us |-> <<5, 4>>,
     trade_signal |-> FALSE,
     spread |-> RSub(a.ask_price, a.bid_price),
     mid_price |-> RDivInt(RAdd(a.bid_price, a.ask_price), 2)]

\* the simulated result with the profit rounded down instead of truncated
SimulatedOutcome_FloorProfit(a) ==
    LET spread == RSub(a.ask_price, a.bid_price)
        mid_price == RDivInt(RAdd(a.bid_price, a.ask_price), 2)
        entry_price == RAdd(mid_price, RMul(spread, <<1, 10>>))
        exit_price == RAdd(entry_price, RMul(spread, <<5, 10>>))
        quantity == Min(a.bid_size, a.ask_size) \div 2
        expected_profit ==
            RFloor(RMul(RMul(RSub(exit_price, entry_price), <<quantity, 1>>),
                        <<1000, 1>>))
    IN  [success |-> TRUE, entry_price |-> entry_price,
         exit_price |-> exit_price, quantity |-> quantity,
         expected_profit |-> expected_profit, confidence |-> <<171, 2>>,
         base_used |-> "Dozenal", base_used_id |-> 2, cycles_taken |-> 125,
         base12_advantage_cycles |-> 15, computations_per_sec |-> 800000,
         latency_us |-> <<5, 4>>, trade_signal |-> expected_profit > 0,
         spread |-> spread, mid_price |-> mid_price, mode |-> "simulation"]

\* _simulate_optimization (after its sleep)
SimulatedOutcome(a) ==
    LET spread == RSub(a.ask_price, a.bid_price)
        mid_price == RDivInt(RAdd(a.bid_price, a.ask_price), 2)
        entry_price == RAdd(mid_price, RMul(spread, <<1, 10>>))
        exit_price == RAdd(entry_price, RMul(spread, <<5, 10>>))
        quantity == Min(a.bid_size, a.ask_size) \div 2
        expected_profit ==
            RTrunc(RMul(RMul(RSub(exit_price, entry_price), <<quantity, 1>>),
                        <<1000, 1>>))
    IN  [success |-> TRUE,
         entry_price |-> entry_price,
         exit_price |-> exit_price,
         quantity |-> quantity,
         expected_profit |-> expected_profit,
         confidence |-> <<171, 2>>,
         base_used |-> "Dozenal",
         base_used_id |-> 2,
         cycles_taken |-> 125,
         base12_advantage_cycles |-> 15,
         computations_per_sec |-> 800000,
         latency_us |-> <<5, 4>>,
         trade_signal |-> expected_profit > 0,
         spread |-> spread,
         mid_price |-> mid_price,
         mode |-> "simulation"]

----------------------------------------------------------------------------
(* The accelerator core behind the register map.  A CONTROL write with     *)
(* enable and start set latches the input registers and clears the         *)
(* completion bit; some time later the core stores its results and sets    *)
(* STATUS bit 0, with bit 16 (trade signal valid) set or not.              *)

DevIdle == [phase |-> "idle", latched |-> <<>>]

StatusBusy == <<2, 0>>

\* The effect of a register write on the core.
DeviceOnWrite(d, m, offset, w) ==
    IF offset = REG_CONTROL /\ w = ControlStart
    THEN [phase |-> "busy", latched |-> [r \in InputRegs |-> m[r]]]
    ELSE IF offset = REG_CONTROL /\ w = ZeroWord
    THEN DevIdle
    ELSE d

\* The register image after a write, the core's reaction included.
MemOnWrite(m, offset, w) ==
    LET m1 == [m EXCEPT ![offset] = w]
    IN  IF offset = REG_CONTROL /\ w = ControlStart
        THEN [m1 EXCEPT ![REG_STATUS] = StatusBusy]
        ELSE IF offset = REG_CONTROL /\ w = ZeroWord
        THEN [m1 EXCEPT ![REG_STATUS] = ZeroWord]
        ELSE m1

DeviceComplete ==
    /\ dev.phase = "busy"
    /\ \E signal \in {0, 1} :
           mem' = [mem EXCEPT
                     ![REG_STATUS] = <<signal, 1>>,
                     ![REG_RESULT_PRICE_H] = dev.latched[REG_BID_PRICE_H],
                     ![REG_RESULT_PRICE_L] = dev.latched[REG_BID_PRICE_L],
                     ![REG_EXIT_PRICE_H] = dev.latched[REG_ASK_PRICE_H],
                     ![REG_EXIT_PRICE_L] = dev.latched[REG_ASK_PRICE_L],
                     ![REG_QUANTITY] = dev.latched[REG_BID_SIZE],
                     ![REG_EXPECTED_PROFIT] = Mask32(7),
                     ![REG_CONFIDENCE] = Mask32(8550),
                     ![REG_BASE_USED] = dev.latched[REG_BASE_SELECT],
                     ![REG_CYCLES_TAKEN] = Mask32(125),
                     ![REG_BASE12_ADV] = Mask32(15),
                     ![REG_COMP_PER_SEC] = Mask32(800000)]
    /\ dev' = [dev EXCEPT !.phase = "done"]
    /\ UNCHANGED <<simulation_mode, mmio, now, call>>
    /\ UNCHANGED codecVars
    /\ UNCHANGED cpuVars
    /\ UNCHANGED calcVars

----------------------------------------------------------------------------
(* optimize(), one step per register access.                               *)

Active(c) == call[c].pc \notin {"idle", "done", "raised"}

\* Lines 204-209: the clock is read once, then the mode decides the path.
Optimize(c, a, timeout_ms) ==
    /\ call[c].pc = "idle"
    /\ call' = [call EXCEPT ![c] =
                   [IdleFrame EXCEPT
                      !.pc = IF simulation_mode THEN "sim" ELSE "inputs",
                      !.args = a,
                      !.timeout_ms = timeout_ms,
                      !.start_time = now,
                      !.entered_at = now,
                      !.wake = now + SimLatencyTicks,
                      !.idx = 1]]
    /\ UNCHANGED <<simulation_mode, mmio, mem, dev, now>>
    /\ UNCHANGED codecVars
    /\ UNCHANGED cpuVars
    /\ UNCHANGED calcVars

\* Lines 207-209, 272-303: the simulated result, once the sleep is over.
SimulateReturn(c) ==
    /\ call[c].pc = "sim"
    /\ now >= call[c].wake
    /\ call' = [call EXCEPT ![c].pc = "done",
                            ![c].ret = SimulatedOutcome(call[c].args)]
    /\ UNCHANGED <<simulation_mode, mmio, mem, dev, now>>
    /\ UNCHANGED codecVars
    /\ UNCHANGED cpuVars
    /\ UNCHANGED calcVars

\* Lines 212-220: the next input register is written.
WriteInput(c) ==
    LET f == call[c]
        w == InputWrites(f.args)[f.idx]
    IN  /\ f.pc = "inputs"
        /\ mmio = "ok"
        /\ mem' = MemOnWrite(mem, w[1], w[2])
        /\ dev' = DeviceOnWrite(dev, mem, w[1], w[2])
        /\ call' = [call EXCEPT
                      ![c].log = Append(f.log, <<"w", w[1], w[2]>>),
                      ![c].idx = IF f.idx = Len(InputWrites(f.args))
                                 THEN 1 ELSE f.idx + 1,
                      ![c].pc = IF f.idx = Len(InputWrites(f.args))
                                THEN "control" ELSE "inputs"]
        /\ UNCHANGED <<simulation_mode, mmio, now>>
        /\ UNCHANGED codecVars
        /\ UNCHANGED cpuVars
        /\ UNCHANGED calcVars

\* Line 128 with self.mmio still None: the first write raises.
WriteRaises(c) ==
    /\ call[c].pc = "inputs"
    /\ mmio = "none"
    /\ call' = [call EXCEPT ![c].pc = "raised"]
    /\ UNCHANGED <<simulation_mode, mmio, mem, dev, now>>
    /\ UNCHANGED codecVars
    /\ UNCHANGED cpuVars
    /\ UNCHANGED calcVars

\* Line 223: Enable + Start.
WriteControl(c) ==
    LET f == call[c]
    IN  /\ f.pc = "control"
        /\ mem' = MemOnWrite(mem, REG_CONTROL, ControlStart)
        /\ dev' = DeviceOnWrite(dev, mem, REG_CONTROL, ControlStart)
        /\ call' = [call EXCEPT
                      ![c].log = Append(f.log, <<"w", REG_CONTROL, ControlStart>>),
                      ![c].pc = "poll"]
        /\ UNCHANGED <<simulation_mode, mmio, now>>
        /\ UNCHANGED codecVars
        /\ UNCHANGED cpuVars
        /\ UNCHANGED calcVars

\* a loop that reads STATUS once before it tests the deadline
PollStatus_AtLeastOnce(c) ==
    LET f == call[c]
        status == ReadReg(mem, REG_STATUS)
    IN  /\ f.pc = "poll"
        /\ Elapsed(f) < TimeoutTicks(f.timeout_ms) \/ f.polls = 0
        /\ call' = [call EXCEPT
                      ![c].status = status,
                      ![c].log = Append(f.log, <<"r", REG_STATUS, status>>),
                      ![c].polls = f.polls + 1,
                      ![c].poll_at = now,
                      ![c].wake = now + SleepTicks,
                      ![c].pc = IF Bit0(status) THEN "read" ELSE "sleep"]
        /\ UNCHANGED <<simulation_mode, mmio, mem, dev, now>>
        /\ UNCHANGED codecVars
        /\ UNCHANGED cpuVars
        /\ UNCHANGED calcVars

\* Lines 227-231: the loop condition holds and STATUS is read.
PollStatus(c) ==
    LET f == call[c]
        status == ReadReg(mem, REG_STATUS)
    IN  /\ f.pc = "poll"
        /\ Elapsed(f) < TimeoutTicks(f.timeout_ms)
        /\ call' = [call EXCEPT
                      ![c].status = status,
                      ![c].log = Append(f.log, <<"r", REG_STATUS, status>>),
                      ![c].polls = f.polls + 1,
                      ![c].poll_at = now,
                      ![c].wake = now + SleepTicks,
                      ![c].pc = IF Bit0(status) THEN "read" ELSE "sleep"]
        /\ UNCHANGED <<simulation_mode, mmio, mem, dev, now>>
        /\ UNCHANGED codecVars
        /\ UNCHANGED cpuVars
        /\ UNCHANGED calcVars

\* a timeout that starts the core again instead of returning
PollTimeout_Retry(c) ==
    LET f == call[c]
    IN  /\ f.pc = "poll"
        /\ ~(Elapsed(f) < TimeoutTicks(f.timeout_ms))
        /\ call' = [call EXCEPT ![c].pc = "control"]
        /\ UNCHANGED <<simulation_mode, mmio, mem, dev, now>>
        /\ UNCHANGED codecVars
        /\ UNCHANGED cpuVars
        /\ UNCHANGED calcVars

\* Lines 227, 232-233: the loop condition fails, the else branch returns.
PollTimeout(c) ==
    LET f == call[c]
    IN  /\ f.pc = "poll"
        /\ ~(Elapsed(f) < TimeoutTicks(f.timeout_ms))
        /\ call' = [call EXCEPT ![c].pc = "done", ![c].ret = TimeoutOutcome]
        /\ UNCHANGED <<simulation_mode, mmio, mem, dev, now>>
        /\ UNCHANGED codecVars
        /\ UNCHANGED cpuVars
        /\ UNCHANGED calcVars

\* Line 231: time.sleep(0.0001) returns once the interval has passed; a
\* sleeper alone moves the clock on to its wake-up time.
Sleep(c) ==
    LET f == call[c]
    IN  /\ f.pc = "sleep"
        /\ f.wake <= MaxTime
        /\ now' = IF now < f.wake THEN f.wake ELSE now
        /\ call' = [call EXCEPT ![c].pc = "poll"]
        /\ UNCHANGED <<simulation_mode, mmio, mem, dev>>
        /\ UNCHANGED codecVars
        /\ UNCHANGED cpuVars
        /\ UNCHANGED calcVars

\* Lines 236-270: the next result register is read; after the last one the
\* result record is returned.
ReadResult(c) ==
    LET f == call[c]
        r == ResultReads[f.idx]
        v == ReadReg(mem, r)
        g == [f EXCEPT !.got = Append(f.got, v),
                       !.log = Append(f.log, <<"r", r, v>>)]
    IN  /\ f.pc = "read"
        /\ call' = [call EXCEPT ![c] =
                       IF f.idx = Len(ResultReads)
                       THEN [g EXCEPT !.pc = "done", !.ret = SuccessOutcome(g)]
                       ELSE [g EXCEPT !.idx = f.idx + 1]]
        /\ UNCHANGED <<simulation_mode, mmio, mem, dev, now>>
        /\ UNCHANGED codecVars
        /\ UNCHANGED cpuVars
        /\ UNCHANGED calcVars

\* The caller takes the outcome; the driver is ready for its next call.
Return(c) ==
    /\ call[c].pc \in {"done", "raised"}
    /\ call' = [call EXCEPT ![c] = IdleFrame]
    /\ UNCHANGED <<simulation_mode, mmio, mem, dev, now>>
    /\ UNCHANGED codecVars
    /\ UNCHANGED cpuVars
    /\ UNCHANGED calcVars

\* Time passes while a call is in progress.
Tick ==
    /\ \E c \in Callers : Active(c)
    /\ now < MaxTime
    /\ now' = now + 1
    /\ UNCHANGED <<simulation_mode, mmio, mem, dev, call>>
    /\ UNCHANGED codecVars
    /\ UNCHANGED cpuVars
    /\ UNCHANGED calcVars

----------------------------------------------------------------------------
(* Initial states.                                                         *)

ZeroStats ==
    [base12_operations |-> 0, base10_operations |-> 0, base2_operations |-> 0,
     total_savings_cycles |-> 0]

CodecOff == price = NoPrice /\ decoded = NoPrice /\ codec_pc = "off"

NoParse == [ok |-> "none"]

NoSizing == [entry_price |-> <<0, 1>>]

NoDepth == [market_depth |-> -1]

CalcOff ==
    /\ dozenal_str = <<>>
    /\ parsed = NoParse
    /\ sizing = NoSizing
    /\ optimal_quantity = -1
    /\ depth = NoDepth
    /\ slippage = <<0, 1>>
    /\ calc_pc = "off"

CpuFresh ==
    /\ value = <<0, 1>>
    /\ base = "none"
    /\ performance_stats = ZeroStats
    /\ result = NoResult
    /\ request = NoRequest
    /\ stats = NoStats

\* MultiBaseOptimizer.__init__ and _initialize_fpga: PYNQ importable or not,
\* a bitstream path given or not, the overlay and MMIO set-up succeeding or
\* raising.  A successful set-up leaves CONTROL = 0x02.
Constructed(pynq_available, bitstream_given, setup_ok) ==
    /\ simulation_mode = (~pynq_available \/ (bitstream_given /\ ~setup_ok))
    /\ mmio = IF pynq_available /\ bitstream_given /\ setup_ok
              THEN "ok" ELSE "none"
    /\ mem = IF pynq_available /\ bitstream_given /\ setup_ok
             THEN MemOnWrite(ZeroMem, REG_CONTROL, ControlEnable)
             ELSE ZeroMem
    /\ dev = DevIdle
    /\ now = 0
    /\ call = [c \in Callers |-> IdleFrame]

InitDriver ==
    /\ \E pynq_available \in BOOLEAN, bitstream_given \in BOOLEAN,
          setup_ok \in BOOLEAN :
           Constructed(pynq_available, bitstream_given, setup_ok)
    /\ CodecOff
    /\ CpuFresh
    /\ CalcOff

\* One thread calls optimize() again and again.
NextDriver ==
    \/ \E a \in Requests, t \in TimeoutsMs : Optimize("c1", a, t)
    \/ SimulateReturn("c1")
    \/ WriteInput("c1")
    \/ WriteRaises("c1")
    \/ WriteControl("c1")
    \/ PollStatus("c1")
    \/ PollTimeout("c1")
    \/ Sleep("c1")
    \/ ReadResult("c1")
    \/ Return("c1")
    \/ DeviceComplete
    \/ Tick

Spec == InitDriver /\ [][NextDriver]_vars

\* Two threads share one initialised driver; each calls optimize() once, on
\* the same quote with its own bid size: "c1" waits up to MaxTimeoutMs, "c2"
\* does not wait.
InitShared ==
    /\ Constructed(TRUE, TRUE, TRUE)
    /\ CodecOff
    /\ CpuFresh
    /\ CalcOff

RequestOf(c) ==
    IF c = "c1" THEN RequestA ELSE [RequestA EXCEPT !.bid_size = 500]

TimeoutOf(c) == IF c = "c1" THEN MaxTimeoutMs ELSE 0

NextShared ==
    \/ \E c \in Callers : Optimize(c, RequestOf(c), TimeoutOf(c))
    \/ \E c \in Callers : WriteInput(c)
    \/ \E c \in Callers : WriteControl(c)
    \/ \E c \in Callers : PollStatus(c)
    \/ \E c \in Callers : PollTimeout(c)
    \/ \E c \in Callers : Sleep(c)
    \/ \E c \in Callers : ReadResult(c)
    \/ DeviceComplete

SpecShared == InitShared /\ [][NextShared]_vars

----------------------------------------------------------------------------
(* The codec alone: one price written to the bid registers and read back.  *)

InitCodec ==
    /\ Constructed(TRUE, TRUE, TRUE)
    /\ price \in Prices
    /\ decoded = NoPrice
    /\ codec_pc = "start"
    /\ CpuFresh
    /\ CalcOff

CodecWrite ==
    /\ codec_pc = "start"
    /\ mem' = WritePrice(mem, REG_BID_PRICE_H, REG_BID_PRICE_L, price)
    /\ codec_pc' = "written"
    /\ UNCHANGED <<simulation_mode, mmio, dev, now, call, price, decoded>>
    /\ UNCHANGED cpuVars
    /\ UNCHANGED calcVars

CodecRead ==
    /\ codec_pc = "written"
    /\ decoded' = ReadPrice(mem, REG_BID_PRICE_H, REG_BID_PRICE_L)
    /\ codec_pc' = "read"
    /\ UNCHANGED <<price, driverVars>>
    /\ UNCHANGED cpuVars
    /\ UNCHANGED calcVars

NextCodec == CodecWrite \/ CodecRead

SpecCodec == InitCodec /\ [][NextCodec]_vars

----------------------------------------------------------------------------
(* The base selector alone, on values given in half cents.                 *)

MaxHalfCents == 640

InitSelect ==
    /\ Constructed(FALSE, FALSE, FALSE)
    /\ CodecOff
    /\ value \in {Norm(<<n, 200>>) : n \in -MaxHalfCents .. MaxHalfCents}
    /\ base = "none"
    /\ performance_stats = ZeroStats
    /\ result = NoResult
    /\ request = NoRequest
    /\ stats = NoStats
    /\ CalcOff

SelectBase ==
    /\ base = "none"
    /\ base' = optimal_base_for_value(value)
    /\ UNCHANGED <<value, performance_stats, result, request, stats>>
    /\ UNCHANGED driverVars
    /\ UNCHANGED codecVars
    /\ UNCHANGED calcVars

NextSelect == SelectBase

SpecSelect == InitSelect /\ [][NextSelect]_vars

----------------------------------------------------------------------------
(* The HFTOptimizer: a sequence of optimize_price_levels calls.            *)

InitPricing ==
    /\ Constructed(FALSE, FALSE, FALSE)
    /\ CodecOff
    /\ CpuFresh
    /\ CalcOff

NextPricing ==
    \E b \in BidCents, s \in SpreadCents, l \in {0, 1},
       strategy \in Strategies :
        optimize_price_levels(Cents(b), Cents(b + s), Cents(b + l), strategy)

SpecPricing == InitPricing /\ [][NextPricing]_vars

----------------------------------------------------------------------------
(* Properties of the fixed-point codec (SpecCodec).                        *)

\* C1: for every price with |price| < 2^16, of either sign, decoding the
\* register pair the encoder wrote yields a value within 2^-32 of the price.
C1_RoundTrip ==
    (codec_pc = "read" /\ InRange(price)) => WithinQuantum(price, decoded)

\* C2: encoding a price that does not fit the 16 integer bits ends in a
\* RangeError ("raised"); the write never completes with masked words in the
\* registers.
C2_OverflowRaises ==
    ~InRange(price) => codec_pc \in {"start", "raised"}

----------------------------------------------------------------------------
(* Properties of the base selector (SpecSelect).                           *)

IsPowerOfTwo(n) == \E k \in 0 .. 30 : n = 2 ^ k

\* floor(|value| * 100)
RefCents(v) == (Abs(v[1]) * 100) \div v[2]

\* The five rules, first match wins.
RefBase(cents) ==
    CASE cents = 0 -> DECIMAL
      [] cents # 0 /\ IsPowerOfTwo(cents) -> BINARY
      [] cents # 0 /\ ~IsPowerOfTwo(cents)
         /\ (cents % 12 = 0 \/ cents % 6 = 0 \/ cents % 4 = 0) -> DOZENAL
      [] cents # 0 /\ ~IsPowerOfTwo(cents)
         /\ ~(cents % 12 = 0 \/ cents % 6 = 0 \/ cents % 4 = 0)
         /\ cents % 10 = 0 -> DECIMAL
      [] OTHER ->
         IF Cardinality({m \in {2, 3, 4, 6} : cents % m = 0}) >= 2
         THEN DOZENAL ELSE DECIMAL

\* C3: optimal_base_for_value applies the five rules in first-match order:
\* its result is the reference function of cents = floor(|value| * 100).
C3_RuleOrder ==
    base # "none" => base = RefBase(RefCents(value))

\* A value classified by the divisibility rule: 2.52, cents = 252 = 4 * 63.
C3_Witness ==
    base = DOZENAL /\ RefCents(value) = 252

\* C4: a value whose cents is a power of two is Binary, also when cents is
\* divisible by 4.
C4_PowerOfTwoBinary ==
    (base # "none" /\ IsPowerOfTwo(RefCents(value))) => base = BINARY

\* 2.56 classified Binary.
C4_Witness ==
    value = <<64, 25>> /\ RefCents(value) = 256 /\ base = BINARY

\* C5 as stated: optimal_base_for_value(1.00) is Decimal.
C5_OneDollarDecimal ==
    (value = <<1, 1>> /\ base # "none") => base = DECIMAL

\* C5 amended: optimal_base_for_value(1.00) is Dozenal; cents = 100 is not a
\* power of two and is divisible by 4, so the divisibility rule classifies it
\* before the cents % 10 rule is tried.
C5_OneDollarDozenal ==
    (value = <<1, 1>> /\ base # "none") =>
        /\ RefCents(value) = 100
        /\ ~IsPowerOfTwo(100)
        /\ base = DOZENAL

C5_Witness ==
    value = <<1, 1>> /\ base # "none"

----------------------------------------------------------------------------
(* Properties of optimize_price_levels (SpecPricing).                      *)

\* The offset table: <<entry fraction, exit fraction>> of the spread.
TableFractions(b, strategy) ==
    IF b = DOZENAL
    THEN CASE strategy = "market_making" -> <<(<<1, 12>>), (<<11, 12>>)>>
           [] strategy = "mean_reversion" -> <<(<<1, 4>>), (<<1, 2>>)>>
           [] OTHER -> <<(<<1, 6>>), (<<1, 3>>)>>
    ELSE IF b = BINARY
    THEN CASE strategy = "market_making" -> <<(<<1, 8>>), (<<7, 8>>)>>
           [] strategy = "momentum" -> <<(<<1, 16>>), (<<1, 4>>)>>
           [] OTHER -> <<(<<1, 4>>), (<<1, 2>>)>>
    ELSE CASE strategy = "market_making" -> <<(<<1, 10>>), (<<9, 10>>)>>
           [] strategy = "arbitrage" -> <<(<<1, 20>>), (<<19, 20>>)>>
           [] OTHER -> <<(<<1, 5>>), (<<4, 5>>)>>

\* C6: the offsets are the spread times the table's fractions for
\* (base, strategy), the prices are mid plus the offsets, and base is
\* optimal_base_for_value(mid).
C6_OffsetTable ==
    result.base_used # "none" =>
        LET mid == RDivInt(RAdd(request.bid, request.ask), 2)
            spread == RSub(request.ask, request.bid)
            fr == TableFractions(result.base_used, request.strategy)
        IN  /\ result.base_used = optimal_base_for_value(mid)
            /\ result.entry_offset = RMul(spread, fr[1])
            /\ result.exit_offset = RMul(spread, fr[2])
            /\ result.entry_price = RAdd(mid, result.entry_offset)
            /\ result.exit_price = RAdd(mid, result.exit_offset)

\* A Binary momentum result on a non-zero spread.
C6_Witness ==
    /\ result.base_used = BINARY
    /\ request.strategy = "momentum"
    /\ result.spread # <<0, 1>>
    /\ result.entry_offset = RDivInt(result.spread, 16)

----------------------------------------------------------------------------
(* Properties of optimize() in hardware mode (Spec, SpecShared).           *)

IsWrite(e, r) == e[1] = "w" /\ e[2] = r
IsRead(e, r) == e[1] = "r" /\ e[2] = r
IsCompleteRead(e) == IsRead(e, REG_STATUS) /\ e[3][2] % 2 = 1
IsResultRead(e) == e[1] = "r" /\ e[2] \in ResultRegs

PayloadFields ==
    {"entry_price", "exit_price", "quantity", "expected_profit", "confidence",
     "base_used", "cycles_taken"}

HardwareMode == ~simulation_mode /\ mmio = "ok"

\* C7: a hardware-mode call none of whose STATUS reads showed bit 0 returns
\* the timeout outcome, success = False with an error and no result field,
\* and has read no result register.
C7_TimeoutNoPayload ==
    \A c \in Callers :
        LET f == call[c]
        IN  (HardwareMode /\ f.pc = "done"
             /\ ~\E i \in DOMAIN f.log : IsCompleteRead(f.log[i]))
            => /\ f.ret.success = FALSE
               /\ "error" \in DOMAIN f.ret
               /\ DOMAIN f.ret \cap PayloadFields = {}
               /\ ~\E i \in DOMAIN f.log : IsResultRead(f.log[i])

\* A call that polled, never saw bit 0 and returned.
C7_Witness ==
    \E c \in Callers :
        /\ HardwareMode
        /\ call[c].pc = "done"
        /\ call[c].polls >= 2
        /\ ~Bit0(call[c].status)
        /\ call[c].ret.success = FALSE

\* C8: in a call's register accesses every input register is written before
\* CONTROL, CONTROL is written once with 0x03 and before the first STATUS
\* read, and a result register is read only after a STATUS read that showed
\* bit 0.
C8_AccessOrder ==
    \A c \in Callers :
        LET log == call[c].log
        IN  \A i \in DOMAIN log :
                /\ IsWrite(log[i], REG_CONTROL) =>
                       /\ log[i][3] = <<0, 3>>
                       /\ \A r \in InputRegs :
                              \E j \in 1 .. (i - 1) : IsWrite(log[j], r)
                       /\ \A j \in DOMAIN log :
                              (j > i) => (log[j][1] = "r")
                /\ IsRead(log[i], REG_STATUS) =>
                       \E j \in 1 .. (i - 1) : IsWrite(log[j], REG_CONTROL)
                /\ IsResultRead(log[i]) =>
                       \E j \in 1 .. (i - 1) : IsCompleteRead(log[j])

\* A call that went through all four phases and returned its results.
C8_Witness ==
    \E c \in Callers :
        /\ call[c].pc = "done"
        /\ call[c].ret.success = TRUE
        /\ call[c].polls >= 2
        /\ Len(call[c].log) = 12 + 1 + call[c].polls + 11

InTransaction(c) ==
    /\ call[c].pc \in {"inputs", "control", "poll", "sleep", "read"}
    /\ Len(call[c].log) > 0

\* C10: one optimize call is one atomic transaction on the register image:
\* no caller accesses the registers while another caller is between its
\* first register write and its return.
C10_AtomicTransaction ==
    \A c \in Callers, d \in Callers :
        (c # d) => ~(InTransaction(c) /\ InTransaction(d))

----------------------------------------------------------------------------
(* optimize() on a driver without the accelerator library: every call      *)
(* takes the software path.  Quotes include sub-cent prices, crossed and   *)
(* locked markets and empty sizes.                                         *)

FallbackBids == {<<1, 1>>, <<201, 200>>, Cents(10025)}

FallbackSpreads == {<<-1, 200>>, <<-3, 100>>, <<0, 1>>, <<1, 200>>, <<3, 100>>}

FallbackSizes == {0, 2, 3, 1000}

FallbackRequests ==
    {[RequestA EXCEPT !.bid_price = b, !.ask_price = RAdd(b, s),
                      !.last_price = b, !.bid_size = bs, !.ask_size = as] :
        b \in FallbackBids, s \in FallbackSpreads,
        bs \in FallbackSizes, as \in FallbackSizes}

InitFallback ==
    /\ \E bitstream_given \in BOOLEAN, setup_ok \in BOOLEAN :
           Constructed(FALSE, bitstream_given, setup_ok)
    /\ CodecOff
    /\ CpuFresh
    /\ CalcOff

NextFallback ==
    \/ \E a \in FallbackRequests, t \in TimeoutsMs : Optimize("c1", a, t)
    \/ SimulateReturn("c1")
    \/ Return("c1")
    \/ Tick

SpecFallback == InitFallback /\ [][NextFallback]_vars

----------------------------------------------------------------------------
(* Claims C11 to C14: the software fallback.                               *)

\* A call that took the software path made no register access.
TookFallback(c) == call[c].pc = "done" /\ call[c].log = <<>>
                   /\ call[c].ret.success = TRUE

\* C11: whenever the register-mapped capability is unavailable (the library
\* is missing, the set-up failed, or no bitstream was configured), optimize
\* returns the software result with success = True, makes no register
\* access, and neither times out nor raises.
C11_FallbackWhenUnavailable ==
    (simulation_mode \/ mmio # "ok") =>
        /\ call["c1"].pc # "raised"
        /\ call["c1"].log = <<>>
        /\ call["c1"].pc = "done" =>
              /\ call["c1"].ret.success = TRUE
              /\ call["c1"].ret = SimulatedOutcome(call["c1"].args)

\* The fields of the record the hardware path returns on success.
SuccessFields ==
    {"success", "entry_price", "exit_price", "quantity", "expected_profit",
     "confidence", "base_used", "base_used_id", "cycles_taken",
     "base12_advantage_cycles", "computations_per_sec", "latency_us",
     "trade_signal", "spread", "mid_price"}

\* C12: the record returned by the software fallback has exactly the fields
\* of the success record of the hardware path, none missing and none added.
C12_SameFields ==
    (call["c1"].pc = "done" /\ call["c1"].ret.success = TRUE) =>
        DOMAIN call["c1"].ret = SuccessFields

\* C13: every result of the software fallback carries the mode indicator,
\* and no result of the hardware path (success or timeout) carries the same
\* indicator value, so the path is recognisable from the result alone.
C13_ModeObservable ==
    call["c1"].pc = "done" =>
        IF simulation_mode
        THEN /\ "mode" \in DOMAIN call["c1"].ret
             /\ call["c1"].ret.mode = "simulation"
        ELSE \/ "mode" \notin DOMAIN call["c1"].ret
             \/ call["c1"].ret.mode # "simulation"

C13_Witness ==
    /\ simulation_mode
    /\ call["c1"].pc = "done"
    /\ call["c1"].log = <<>>
    /\ call["c1"].ret.mode = "simulation"

\* C14: for all inputs, a negative spread included, the software fallback
\* returns entry_price = mid + spread*0.1, exit_price = entry_price +
\* spread*0.5, quantity = floor(min(bid_size, ask_size)/2), expected_profit
\* = floor((exit_price - entry_price)*quantity*1000), confidence = 85.5 and
\* base_used = Dozenal.
C14_FallbackValues ==
    TookFallback("c1") =>
        LET a == call["c1"].args
            r == call["c1"].ret
            q == (IF a.bid_size <= a.ask_size THEN a.bid_size
                  ELSE a.ask_size) \div 2
            \* mid + spread/10 = (6 ask + 4 bid)/10,
            \* entry + spread/2 = (11 ask - bid)/10
            entry == RDivInt(RAdd(RMul(<<6, 1>>, a.ask_price),
                                  RMul(<<4, 1>>, a.bid_price)), 10)
            exit == RDivInt(RSub(RMul(<<11, 1>>, a.ask_price),
                                 a.bid_price), 10)
            gain == RMul(RSub(a.ask_price, a.bid_price), <<500 * q, 1>>)
        IN  /\ r.entry_price = entry
            /\ r.exit_price = exit
            /\ r.quantity = q
            /\ r.expected_profit = gain[1] \div gain[2]
            /\ r.confidence = <<171, 2>>
            /\ r.base_used = "Dozenal"

\* C14 as amended: the same, with expected_profit the product truncated
\* toward zero (int), which is its floor only when the product is not
\* negative or is whole.
C14_FallbackValuesTruncated ==
    TookFallback("c1") =>
        LET a == call["c1"].args
            r == call["c1"].ret
            q == (IF a.bid_size <= a.ask_size THEN a.bid_size
                  ELSE a.ask_size) \div 2
            entry == RDivInt(RAdd(RMul(<<6, 1>>, a.ask_price),
                                  RMul(<<4, 1>>, a.bid_price)), 10)
            exit == RDivInt(RSub(RMul(<<11, 1>>, a.ask_price),
                                 a.bid_price), 10)
            gain == RMul(RSub(a.ask_price, a.bid_price), <<500 * q, 1>>)
        IN  /\ r.entry_price = entry
            /\ r.exit_price = exit
            /\ r.quantity = q
            /\ r.expected_profit = IF gain[1] >= 0 THEN gain[1] \div gain[2]
                                   ELSE -((-gain[1]) \div gain[2])
            /\ r.confidence = <<171, 2>>
            /\ r.base_used = "Dozenal"

\* bid 1.005, ask 1.000, sizes 2 and 2: the product is -2.5
C14_Witness ==
    /\ TookFallback("c1")
    /\ call["c1"].args.bid_price = <<201, 200>>
    /\ call["c1"].args.ask_price = <<1, 1>>
    /\ call["c1"].args.bid_size = 2
    /\ call["c1"].args.ask_size = 2
    /\ call["c1"].ret.expected_profit = -2

----------------------------------------------------------------------------
(* MultiBaseCalculator: the dozenal conversions.  A string is a sequence   *)
(* of one-character strings; a float is an exact fraction.                 *)

DOZENAL_DIGITS == <<"0", "1", "2", "3", "4", "5", "6", "7", "8", "9", "A", "B">>

\* DOZENAL_DIGITS[digit] with Python's indexing: from 0, and a negative
\* index counts from the end.
DigitAt(digit) ==
    IF digit >= 0 THEN DOZENAL_DIGITS[digit + 1]
    ELSE DOZENAL_DIGITS[Len(DOZENAL_DIGITS) + digit + 1]

\* Lines 88-91 and 96: the digits of a positive integer, most significant
\* first.
RECURSIVE IntDigits(_)
IntDigits(n) ==
    IF n = 0 THEN <<>>
    ELSE Append(IntDigits(n \div 12), DigitAt(n % 12))

\* _int_to_dozenal
int_to_dozenal(v) ==
    IF v = 0 THEN <<"0">>
    ELSE (IF v < 0 THEN <<"-">> ELSE <<>>) \o IntDigits(Abs(v))

\* Line 110, value < 1e-10.  The fractions considered have denominators far
\* below 10^10, so a positive one is never below 1e-10.
BelowEpsilon(q) == q[1] <= 0

\* Lines 104-111: the loop of _frac_to_dozenal with `left` rounds to go.
RECURSIVE FracDigits(_, _)
FracDigits(q, left) ==
    LET scaled == RMul(q, <<12, 1>>)
        digit == RTrunc(scaled)
        rest == RSub(scaled, <<digit, 1>>)
    IN  IF left = 1 \/ BelowEpsilon(rest)
        THEN <<DigitAt(digit)>>
        ELSE <<DigitAt(digit)>> \o FracDigits(rest, left - 1)

\* _frac_to_dozenal
frac_to_dozenal(q, max_digits) ==
    IF q[1] = 0 THEN <<>> ELSE FracDigits(q, max_digits)

to_dozenal(v) ==
    IF v[1] = 0 THEN <<"0">>
    ELSE LET integer_part == RTrunc(v)
             fractional_part == RSub(v, <<integer_part, 1>>)
             dozenal_int == int_to_dozenal(integer_part)
             dozenal_frac == frac_to_dozenal(fractional_part, 8)
         IN  IF dozenal_frac # <<>>
             THEN dozenal_int \o <<".">> \o dozenal_frac
             ELSE dozenal_int

\* digit.upper() for the characters considered
Upper(ch) == IF ch = "a" THEN "A" ELSE IF ch = "b" THEN "B" ELSE ch

\* DOZENAL_DIGITS.index(ch), or -1 where it raises ValueError
IndexOf(ch) ==
    IF \E i \in DOMAIN DOZENAL_DIGITS : DOZENAL_DIGITS[i] = ch
    THEN (CHOOSE i \in DOMAIN DOZENAL_DIGITS : DOZENAL_DIGITS[i] = ch) - 1
    ELSE -1

\* The position of the first '.' of a string, or 0.
FirstDot(str) ==
    IF \E i \in DOMAIN str : str[i] = "."
    THEN CHOOSE i \in DOMAIN str :
             str[i] = "." /\ \A j \in 1 .. i - 1 : str[j] # "."
    ELSE 0

\* str.split('.')[0]
Part0(str) ==
    IF FirstDot(str) = 0 THEN str ELSE SubSeq(str, 1, FirstDot(str) - 1)

\* what follows the first '.'
AfterDot(str) ==
    IF FirstDot(str) = 0 THEN <<>>
    ELSE SubSeq(str, FirstDot(str) + 1, Len(str))

\* The value of a digit string read as a base-12 numeral.
RECURSIVE Numeral(_)
Numeral(digits) ==
    IF digits = <<>> THEN 0
    ELSE 12 * Numeral(SubSeq(digits, 1, Len(digits) - 1))
         + IndexOf(Upper(digits[Len(digits)]))

\* from_dozenal.  The float returned is (-1)^neg * (ip + fnum / 12^k).
from_dozenal(str) ==
    LET negative == Len(str) > 0 /\ str[1] = "-"
        body == IF negative THEN Tail(str) ELSE str
        integer_str == Part0(body)
        fractional_str == Part0(AfterDot(body))
        digits == integer_str \o fractional_str
    IN  IF \E i \in DOMAIN digits : IndexOf(Upper(digits[i])) = -1
        THEN [ok |-> FALSE, error |-> "ValueError"]
        ELSE [ok |-> TRUE, neg |-> negative, ip |-> Numeral(integer_str),
              fnum |-> Numeral(fractional_str), k |-> Len(fractional_str)]

----------------------------------------------------------------------------
(* to_dozenal followed by from_dozenal, on values of either sign: an       *)
(* integer part of one to three dozenal digits and a fraction m/d, among   *)
(* them fractions that end within 8 dozenal digits and fractions that do   *)
(* not.                                                                    *)

MaxFracNum == 3

DozenalIntParts == {0, 1, 11, 12, 143, 144}

DozenalDens == {1, 2, 4, 5, 7, 8, 10, 16, 100}

DozenalValues ==
    {Norm(<<sign * (ip * d + m), d>>) :
        sign \in {1, -1}, ip \in DozenalIntParts,
        d \in DozenalDens, m \in 0 .. MaxFracNum}

InitDozenal ==
    /\ Constructed(FALSE, FALSE, FALSE)
    /\ CodecOff
    /\ value \in DozenalValues
    /\ base = "none"
    /\ performance_stats = ZeroStats
    /\ result = NoResult
    /\ request = NoRequest
    /\ stats = NoStats
    /\ dozenal_str = <<>>
    /\ parsed = NoParse
    /\ sizing = NoSizing
    /\ optimal_quantity = -1
    /\ depth = NoDepth
    /\ slippage = <<0, 1>>
    /\ calc_pc = "value"

ToDozenal ==
    /\ calc_pc = "value"
    /\ dozenal_str' = to_dozenal(value)
    /\ calc_pc' = "string"
    /\ UNCHANGED <<parsed, sizing, optimal_quantity, depth, slippage>>
    /\ UNCHANGED driverVars
    /\ UNCHANGED codecVars
    /\ UNCHANGED cpuVars

FromDozenal ==
    /\ calc_pc = "string"
    /\ parsed' = from_dozenal(dozenal_str)
    /\ calc_pc' = "parsed"
    /\ UNCHANGED <<dozenal_str, sizing, optimal_quantity, depth, slippage>>
    /\ UNCHANGED driverVars
    /\ UNCHANGED codecVars
    /\ UNCHANGED cpuVars

NextDozenal == ToDozenal \/ FromDozenal

SpecDozenal == InitDozenal /\ [][NextDozenal]_vars

\* from_dozenal on arbitrary short strings.
MaxStrLen == 5

ParseAlphabet == {"1", "2", "b", "Z", ".", "-"}

RECURSIVE StringsOfLen(_)
StringsOfLen(n) ==
    IF n = 0 THEN {<<>>}
    ELSE {Append(str, ch) : str \in StringsOfLen(n - 1), ch \in ParseAlphabet}

InitParse ==
    /\ Constructed(FALSE, FALSE, FALSE)
    /\ CodecOff
    /\ CpuFresh
    /\ \E n \in 0 .. MaxStrLen : dozenal_str \in StringsOfLen(n)
    /\ parsed = NoParse
    /\ sizing = NoSizing
    /\ optimal_quantity = -1
    /\ depth = NoDepth
    /\ slippage = <<0, 1>>
    /\ calc_pc = "string"

NextParse == FromDozenal

SpecParse == InitParse /\ [][NextParse]_vars

----------------------------------------------------------------------------
(* Claims C15 to C17: the dozenal conversions.                             *)

RECURSIVE Pow12(_)
Pow12(k) == IF k = 0 THEN 1 ELSE 12 * Pow12(k - 1)

\* |x - v| <= 12^-8 for the float x = (-1)^neg (ip + fnum/12^k) and the
\* fraction v.  Both are written as floor + fraction, F + a/12^k and
\* G + b/d, and the fractions are compared by cross-multiplication.
Within12Pow8(p, v) ==
    LET F == IF ~p.neg THEN p.ip
             ELSE IF p.fnum = 0 THEN -p.ip ELSE -p.ip - 1
        a == IF ~p.neg \/ p.fnum = 0 THEN p.fnum ELSE Pow12(p.k) - p.fnum
        G == v[1] \div v[2]
        b == v[1] % v[2]
        d == v[2]
        S == a * d - b * Pow12(p.k)
        slack == d \div Pow12(8 - p.k)
    IN  \/ F = G /\ Abs(S) <= slack
        \/ F = G + 1 /\ d * Pow12(p.k) + S <= slack
        \/ F = G - 1 /\ d * Pow12(p.k) - S <= slack

\* C15: for every value, positive, zero or negative, with or without a
\* fractional part, from_dozenal(to_dozenal(value)) differs from value by
\* at most 12^-8.
C15_DozenalRoundTrip ==
    calc_pc = "parsed" =>
        /\ parsed.ok = TRUE
        /\ Within12Pow8(parsed, value)

\* A character that is neither a dozenal digit (in either case), nor the
\* leading '-', nor the one '.' separator.
HasForeignChar(str) ==
    LET body == IF Len(str) > 0 /\ str[1] = "-" THEN Tail(str) ELSE str
    IN  \E i \in DOMAIN body :
            /\ body[i] \notin {"0", "1", "2", "3", "4", "5", "6", "7", "8",
                               "9", "A", "B", "a", "b"}
            /\ ~(body[i] = "." /\ \A j \in 1 .. i - 1 : body[j] # ".")

\* C16: from_dozenal fails with a parse error for every string that holds,
\* after the optional leading '-' and apart from the single '.' separator,
\* a character outside the dozenal alphabet; it returns no value for it.
C16_ParseErrorOnForeignChar ==
    (calc_pc = "parsed" /\ HasForeignChar(dozenal_str)) => parsed.ok = FALSE

\* The dozenal digit characters of the string under study, as numbers.
DigitValue(ch) ==
    CASE ch = "0" -> 0 [] ch = "1" -> 1 [] ch = "2" -> 2 [] ch = "3" -> 3
      [] ch = "4" -> 4 [] ch = "5" -> 5 [] ch = "6" -> 6 [] ch = "7" -> 7
      [] ch = "8" -> 8 [] ch = "9" -> 9 [] ch = "A" -> 10 [] ch = "B" -> 11
      [] OTHER -> -1

\* C17: the string returned by to_dozenal has the form [-]D+[.F+] with D and
\* F the true base-12 digits of the magnitude: '-' only as first character
\* and only for a negative integer part, at most 8 fractional digits, and
\* no '.' for a zero fractional residue.
C17_DozenalForm ==
    calc_pc \in {"string", "parsed"} =>
        LET str == dozenal_str
            minus == Len(str) > 0 /\ str[1] = "-"
            body == IF minus THEN Tail(str) ELSE str
            dot == IF \E i \in DOMAIN body : body[i] = "."
                   THEN CHOOSE i \in DOMAIN body :
                            body[i] = "." /\ \A j \in 1 .. i - 1 : body[j] # "."
                   ELSE 0
            D == IF dot = 0 THEN body ELSE SubSeq(body, 1, dot - 1)
            F == IF dot = 0 THEN <<>> ELSE SubSeq(body, dot + 1, Len(body))
            whole == Abs(value[1]) \div value[2]
            m == Abs(value[1]) % value[2]
        IN  /\ Len(D) >= 1
            /\ \A i \in DOMAIN D : DigitValue(D[i]) >= 0
            /\ \A i \in DOMAIN F : DigitValue(F[i]) >= 0
            /\ dot # 0 => Len(F) \in 1 .. 8
            /\ minus => value[1] < 0 /\ whole > 0
            /\ \A i \in DOMAIN D :
                   DigitValue(D[i]) = (whole \div Pow12(Len(D) - i)) % 12
            /\ whole < Pow12(Len(D))
            /\ Len(D) > 1 => D[1] # "0"
            /\ \A i \in DOMAIN F :
                   DigitValue(F[i]) = ((m * Pow12(i)) \div value[2]) % 12
            /\ m = 0 => dot = 0

----------------------------------------------------------------------------
(* Claim C18: the operation counters.                                      *)

OperationCounters == {"base12_operations", "base2_operations", "base10_operations"}

\* C18: each completed optimize_price_levels call increments by exactly 1
\* the counter matching the base_used of its result and leaves the other
\* two unchanged; the counters start at zero, so that none ever decreases
\* and their sum is the number of completed calls.
C18_CounterFrame ==
    /\ \A k \in OperationCounters : performance_stats[k] = 0
    /\ [][LET hit == CASE result'.base_used = DOZENAL -> "base12_operations"
                       [] result'.base_used = BINARY -> "base2_operations"
                       [] result'.base_used = DECIMAL -> "base10_operations"
          IN  /\ performance_stats'[hit] = performance_stats[hit] + 1
              /\ \A k \in OperationCounters \ {hit} :
                     performance_stats'[k] = performance_stats[k]
              /\ TotalOps' = TotalOps + 1]_vars

C18_Witness ==
    /\ result.base_used = BINARY
    /\ performance_stats["base2_operations"] = 1
    /\ performance_stats["base12_operations"] = 1
    /\ performance_stats["base10_operations"] = 0

----------------------------------------------------------------------------
(* HFTOptimizer: position sizing and slippage.                             *)

RDiv(a, b) == Norm(<<a[1] * b[2], a[2] * b[1]>>)

RLess(a, b) == a[1] * b[2] < b[1] * a[2]

RMax(a, b) == IF RLess(a, b) THEN b ELSE a

RMin(a, b) == IF RLess(b, a) THEN b ELSE a

\* the position sized by the full Kelly fraction
calculate_optimal_quantity_FullKelly(entry_price, risk_limit, confidence, volatility) ==
    LET p == RDivInt(confidence, 100)
        q == RSub(<<1, 1>>, p)
        kelly_fraction ==
            RMax(<<0, 1>>, RDivInt(RSub(RMul(p, <<2, 1>>), q), 2))
        position_value == RMul(risk_limit, kelly_fraction)
        qty == IF entry_price[1] > 0
               THEN RTrunc(RDiv(position_value, entry_price))
               ELSE 0
    IN  IF qty > 0 THEN qty ELSE 0

\* calculate_optimal_quantity; volatility is not used by the code.
calculate_optimal_quantity(entry_price, risk_limit, confidence, volatility) ==
    LET p == RDivInt(confidence, 100)
        q == RSub(<<1, 1>>, p)
        kelly_fraction ==
            RMax(<<0, 1>>, RDivInt(RSub(RMul(p, <<2, 1>>), q), 2))
        position_value == RMul(RMul(risk_limit, kelly_fraction), <<1, 2>>)
        qty == IF entry_price[1] > 0
               THEN RTrunc(RDiv(position_value, entry_price))
               ELSE 0
    IN  IF qty > 0 THEN qty ELSE 0

EntryPrices == {<<-5, 1>>, <<0, 1>>, <<1, 4>>, <<3, 1>>, <<100, 1>>}

RiskLimits == {<<-1000, 1>>, <<0, 1>>, <<1000, 1>>, <<100000, 1>>}

Confidences ==
    {<<-10, 1>>, <<0, 1>>, <<33, 1>>, <<34, 1>>, <<50, 1>>, <<171, 2>>,
     <<100, 1>>, <<150, 1>>}

Volatilities == {<<1, 1>>, <<1, 50>>}

InitSizing ==
    /\ Constructed(FALSE, FALSE, FALSE)
    /\ CodecOff
    /\ CpuFresh
    /\ dozenal_str = <<>>
    /\ parsed = NoParse
    /\ sizing \in [entry_price : EntryPrices, risk_limit : RiskLimits,
                   confidence : Confidences, volatility : Volatilities]
    /\ optimal_quantity = -1
    /\ depth = NoDepth
    /\ slippage = <<0, 1>>
    /\ calc_pc = "sizing"

CalculateOptimalQuantity ==
    /\ calc_pc = "sizing"
    /\ optimal_quantity' =
           calculate_optimal_quantity(sizing.entry_price, sizing.risk_limit,
                                      sizing.confidence, sizing.volatility)
    /\ calc_pc' = "sized"
    /\ UNCHANGED <<dozenal_str, parsed, sizing, depth, slippage>>
    /\ UNCHANGED driverVars
    /\ UNCHANGED codecVars
    /\ UNCHANGED cpuVars

NextSizing == CalculateOptimalQuantity

SpecSizing == InitSizing /\ [][NextSizing]_vars

\* depth_ratio ** 1.5 for a ratio that is the square of a fraction (the
\* quotes considered are chosen so): the cube of its root.
ISqrt(n) == CHOOSE k \in 0 .. n : k * k = n

Pow15(r) == <<ISqrt(r[1]) * ISqrt(r[1]) * ISqrt(r[1]),
              ISqrt(r[2]) * ISqrt(r[2]) * ISqrt(r[2])>>

\* the estimate without its cap
estimate_slippage_NoCap(qty, spread, market_depth) ==
    IF market_depth = 0 THEN RMul(spread, <<1, 2>>)
    ELSE LET depth_ratio == Norm(<<qty, market_depth>>)
             base_slippage == RMul(spread, <<1, 4>>)
         IN  RMul(base_slippage, RAdd(<<1, 1>>, Pow15(depth_ratio)))

estimate_slippage(qty, spread, market_depth) ==
    IF market_depth = 0 THEN RMul(spread, <<1, 2>>)
    ELSE LET depth_ratio == Norm(<<qty, market_depth>>)
             base_slippage == RMul(spread, <<1, 4>>)
             slip == RMul(base_slippage, RAdd(<<1, 1>>, Pow15(depth_ratio)))
         IN  RMin(slip, spread)

\* Order quantities a*a*k against depths b*b*k, both non-negative.
MaxRoot == 3

Lots == {1, 2, 3}

Spreads == {<<-1, 100>>, <<0, 1>>, <<3, 100>>, <<1, 1>>}

InitSlippage ==
    /\ Constructed(FALSE, FALSE, FALSE)
    /\ CodecOff
    /\ CpuFresh
    /\ dozenal_str = <<>>
    /\ parsed = NoParse
    /\ sizing = NoSizing
    /\ optimal_quantity = -1
    /\ \E a \in 0 .. MaxRoot, b \in 0 .. MaxRoot, k \in Lots, sp \in Spreads :
           depth = [quantity |-> a * a * k, spread |-> sp,
                    market_depth |-> b * b * k]
    /\ slippage = <<0, 1>>
    /\ calc_pc = "depth"

EstimateSlippage ==
    /\ calc_pc = "depth"
    /\ slippage' = estimate_slippage(depth.quantity, depth.spread,
                                     depth.market_depth)
    /\ calc_pc' = "slipped"
    /\ UNCHANGED <<dozenal_str, parsed, sizing, optimal_quantity, depth>>
    /\ UNCHANGED driverVars
    /\ UNCHANGED codecVars
    /\ UNCHANGED cpuVars

NextSlippage == EstimateSlippage

SpecSlippage == InitSlippage /\ [][NextSlippage]_vars

----------------------------------------------------------------------------
(* Claims C19 and C20: position sizing and slippage.                       *)

\* C19: calculate_optimal_quantity returns a non-negative integer: with
\* p = confidence/100 and f = max(0, (2p - (1-p))/2) it is
\* floor(risk_limit*f*0.5/entry_price), floored at 0, when entry_price > 0
\* and 0 when entry_price <= 0; entry_price = 100, risk_limit = 100000,
\* confidence = 100 give 500.
C19_KellyQuantity ==
    calc_pc = "sized" =>
        LET e == sizing.entry_price
            r == sizing.risk_limit
            c == sizing.confidence
            \* f = max(0, 3c - 100)/200 with c = c[1]/c[2]
            edge == IF 3 * c[1] - 100 * c[2] > 0
                    THEN 3 * c[1] - 100 * c[2] ELSE 0
            num == r[1] * edge * e[2]
            den == 400 * c[2] * r[2] * e[1]
            floored == IF num \div den > 0 THEN num \div den ELSE 0
        IN  /\ optimal_quantity \in Nat
            /\ e[1] > 0 => optimal_quantity = floored
            /\ e[1] <= 0 => optimal_quantity = 0
            /\ (e = <<100, 1>> /\ r = <<100000, 1>> /\ c = <<100, 1>>)
                  => optimal_quantity = 500

C19_Witness ==
    /\ calc_pc = "sized"
    /\ sizing.entry_price = <<100, 1>>
    /\ sizing.risk_limit = <<100000, 1>>
    /\ sizing.confidence = <<100, 1>>
    /\ optimal_quantity = 500

----------------------------------------------------------------------------
(* Claims C21 and C22: the end of a hardware-mode call.                    *)

WritesTo(log, r) == Cardinality({i \in DOMAIN log : IsWrite(log[i], r)})

\* CONTROL and each input register are written at most once by a call, and
\* exactly once, CONTROL with 0x03, by a call that returned.
WrittenOnce ==
    LET f == call["c1"]
    IN  HardwareMode =>
            /\ \A r \in InputRegs \cup {REG_CONTROL} : WritesTo(f.log, r) <= 1
            /\ \A i \in DOMAIN f.log :
                   IsWrite(f.log[i], REG_CONTROL) => f.log[i][3] = <<0, 3>>
            /\ f.pc = "done" =>
                   \A r \in InputRegs \cup {REG_CONTROL} : WritesTo(f.log, r) = 1

\* C21: a timeout is terminal and never retried: in every hardware-mode
\* call CONTROL is written exactly once, with 0x03, each input register is
\* written exactly once, and after the deadline has passed the call makes
\* no further register write or read before it returns.
C21_NoAccessAfterDeadline ==
    /\ []WrittenOnce
    /\ [][(/\ HardwareMode
           /\ Active("c1")
           /\ Elapsed(call["c1"]) > TimeoutTicks(call["c1"].timeout_ms))
          => call'["c1"].log = call["c1"].log]_vars

\* C21 as amended: the same, with the last part for a call whose poll loop
\* has found the deadline passed: its next step returns the timeout outcome
\* without a register access.  (Input and CONTROL writes, and the result
\* reads that follow a completion seen in time, are not held to the
\* deadline.)
C21_TimeoutNotRetried ==
    /\ []WrittenOnce
    /\ [][(/\ HardwareMode
           /\ call["c1"].pc = "poll"
           /\ ~(Elapsed(call["c1"]) < TimeoutTicks(call["c1"].timeout_ms)))
          => /\ call'["c1"].log = call["c1"].log
             /\ call'["c1"].pc \in {"poll", "done"}
             /\ call'["c1"].pc = "done" => call'["c1"].ret = TimeoutOutcome]_vars

\* A call that polled until the deadline and returned the timeout outcome.
C21_Witness ==
    LET f == call["c1"]
    IN  /\ HardwareMode
        /\ f.pc = "done"
        /\ f.ret = TimeoutOutcome
        /\ f.polls >= 1
        /\ WritesTo(f.log, REG_CONTROL) = 1
        /\ Len(f.log) = 13 + f.polls
        /\ now >= f.start_time + TimeoutTicks(f.timeout_ms)

\* The place in a call's log of the STATUS read that showed completion, and
\* the word read from register r after it.
CompleteAt(log) == CHOOSE k \in DOMAIN log : IsCompleteRead(log[k])

ReadAfter(log, r) ==
    LET i == CHOOSE j \in DOMAIN log : j > CompleteAt(log) /\ IsRead(log[j], r)
    IN  log[i][3]

\* C22: the success record is decoded from the result registers as read
\* after the completion was observed: entry and exit price through the
\* fixed-point decoder, confidence = CONFIDENCE / 100, base_used named from
\* BASE_USED (0 Binary, 1 Decimal, 2 Dozenal), trade_signal = bit 16 of
\* the status word in which bit 0 was seen.
C22_SuccessDecoded ==
    LET f == call["c1"]
        k == CompleteAt(f.log)
        used == WordVal(ReadAfter(f.log, REG_BASE_USED))
    IN  (HardwareMode /\ f.pc = "done" /\ f.ret.success = TRUE) =>
            /\ \E j \in DOMAIN f.log : IsCompleteRead(f.log[j])
            /\ \A r \in ResultRegs :
                   Cardinality({j \in DOMAIN f.log :
                                    j > k /\ IsRead(f.log[j], r)}) = 1
            /\ f.ret.entry_price =
                   DecodePrice(ReadAfter(f.log, REG_RESULT_PRICE_H),
                               ReadAfter(f.log, REG_RESULT_PRICE_L))
            /\ f.ret.exit_price =
                   DecodePrice(ReadAfter(f.log, REG_EXIT_PRICE_H),
                               ReadAfter(f.log, REG_EXIT_PRICE_L))
            /\ f.ret.confidence[1] * 100 =
                   WordVal(ReadAfter(f.log, REG_CONFIDENCE)) * f.ret.confidence[2]
            /\ f.ret.base_used_id = used
            /\ used = 0 => f.ret.base_used = "Binary"
            /\ used = 1 => f.ret.base_used = "Decimal"
            /\ used = 2 => f.ret.base_used = "Dozenal"
            /\ f.ret.trade_signal = (f.log[k][3][1] % 2 = 1)

\* A completed call that named Dozenal and carries a trade signal.
C22_Witness ==
    LET f == call["c1"]
    IN  /\ HardwareMode
        /\ f.pc = "done"
        /\ f.ret.success = TRUE
        /\ f.ret.trade_signal = TRUE
        /\ f.ret.base_used = "Dozenal"
        /\ f.ret.confidence = <<171, 2>>
        /\ f.ret.entry_price = DecodePrice(ReadAfter(f.log, REG_RESULT_PRICE_H),
                                           ReadAfter(f.log, REG_RESULT_PRICE_L))
        /\ f.ret.entry_price.ip = 144

----------------------------------------------------------------------------
(* Claim C23: the market-making example of the module's main block.        *)

ExampleRequest ==
    [bid |-> Cents(10025), ask |-> Cents(10028), last |-> Cents(10026),
     strategy |-> "market_making"]

\* C23: for bid 100.25, ask 100.28, last 100.26 and market making,
\* mid = 100.265, spread = 0.03, the cents of mid are 10026, which rules 1-3
\* do not send to Binary or Dozenal, and the offsets are the spread times
\* the table fractions of the selected base.
C23_ExampleNotForced ==
    request = ExampleRequest =>
        LET cents == RefCents(result.mid_price)
            fr == TableFractions(result.base_used, "market_making")
        IN  /\ result.mid_price = <<20053, 200>>
            /\ result.spread = <<3, 100>>
            /\ cents = 10026
            /\ ~IsPowerOfTwo(cents)
            /\ ~(cents % 12 = 0 \/ cents % 6 = 0 \/ cents % 4 = 0)
            /\ result.entry_offset = RMul(result.spread, fr[1])
            /\ result.exit_offset = RMul(result.spread, fr[2])

\* C23 as amended: the cents of mid, 10026, are divisible by 6, so rule 3
\* selects Dozenal, and the offsets are spread/12 and spread*11/12.
C23_ExampleDozenal ==
    request = ExampleRequest =>
        LET cents == RefCents(result.mid_price)
        IN  /\ result.mid_price = <<20053, 200>>
            /\ result.spread = <<3, 100>>
            /\ cents = 10026
            /\ ~IsPowerOfTwo(cents)
            /\ cents % 6 = 0
            /\ result.base_used = DOZENAL
            /\ result.entry_offset = <<1, 400>>
            /\ result.exit_offset = <<11, 400>>

C23_Witness ==
    /\ request = ExampleRequest
    /\ result.base_used = DOZENAL
    /\ result.cycles_saved = 15
    /\ performance_stats["base12_operations"] >= 1

----------------------------------------------------------------------------
(* Claim C24: the divisibility score of optimal_base_for_value.            *)

Base12Score(cents) == Cardinality({m \in {2, 3, 4, 6} : cents % m = 0})

Divisible4or6(cents) == cents % 12 = 0 \/ cents % 6 = 0 \/ cents % 4 = 0

ReachesScore(cents) ==
    /\ cents # 0
    /\ ~IsPowerOfTwo(cents)
    /\ ~Divisible4or6(cents)
    /\ cents % 10 # 0

\* C24: the score rule never selects Dozenal: every cents that reaches it
\* scores below 2, every value that fails the zero, power-of-two and
\* divisibility rules is Decimal, and the result is Dozenal exactly when
\* cents is not a power of two and is divisible by 4 or by 6.
C24_ScoreNeverDozenal ==
    base # "none" =>
        LET cents == RefCents(value)
        IN  /\ ReachesScore(cents) => Base12Score(cents) < 2
            /\ (cents # 0 /\ ~IsPowerOfTwo(cents) /\ ~Divisible4or6(cents))
                   => base = DECIMAL
            /\ base = DOZENAL <=>
                   (~IsPowerOfTwo(cents) /\ (cents % 4 = 0 \/ cents % 6 = 0))

\* C24 as amended: the same, with Dozenal exactly when cents is not zero,
\* not a power of two and divisible by 4 or by 6.
C24_ScoreNeverDozenalNonZero ==
    base # "none" =>
        LET cents == RefCents(value)
        IN  /\ ReachesScore(cents) => Base12Score(cents) < 2
            /\ (cents # 0 /\ ~IsPowerOfTwo(cents) /\ ~Divisible4or6(cents))
                   => base = DECIMAL
            /\ base = DOZENAL <=>
                   /\ cents # 0
                   /\ ~IsPowerOfTwo(cents)
                   /\ (cents % 4 = 0 \/ cents % 6 = 0)

\* 0.14 reaches the score rule with a score of 1 and is Decimal.
C24_Witness ==
    /\ RefCents(value) = 14
    /\ ReachesScore(14)
    /\ Base12Score(14) = 1
    /\ base = DECIMAL

----------------------------------------------------------------------------
(* The driver's other methods: load_bitstream, reset and get_status, each  *)
(* a whole call of caller c made while c has no call in progress.  The     *)
(* frame of c holds what the method returned.                              *)

SetupOutcomes == {"ok", "overlay_raises", "mmio_raises"}

\* a set-up that succeeds and leaves simulation mode
LoadBitstream_LeavesSimulation(c, setup) ==
    /\ call[c].pc = "idle"
    /\ setup = "ok"
    /\ simulation_mode' = FALSE
    /\ mmio' = "ok"
    /\ mem' = MemOnWrite(mem, REG_CONTROL, ControlEnable)
    /\ dev' = DeviceOnWrite(dev, mem, REG_CONTROL, ControlEnable)
    /\ call' = [call EXCEPT ![c] = [IdleFrame EXCEPT !.pc = "done"]]
    /\ UNCHANGED now
    /\ UNCHANGED codecVars
    /\ UNCHANGED cpuVars
    /\ UNCHANGED calcVars

\* load_bitstream -> _initialize_fpga: Overlay and MMIO are created, then
\* CONTROL = 0x02 is written through _write_reg, which does nothing in
\* simulation mode; any exception sets simulation_mode.  Nothing sets it
\* to False.
LoadBitstream(c, setup) ==
    /\ call[c].pc = "idle"
    /\ IF setup = "ok"
       THEN /\ mmio' = "ok"
            /\ mem' = IF simulation_mode THEN mem
                      ELSE MemOnWrite(mem, REG_CONTROL, ControlEnable)
            /\ dev' = IF simulation_mode THEN dev
                      ELSE DeviceOnWrite(dev, mem, REG_CONTROL, ControlEnable)
            /\ UNCHANGED simulation_mode
       ELSE /\ simulation_mode' = TRUE
            /\ UNCHANGED <<mmio, mem, dev>>
    /\ call' = [call EXCEPT ![c] = [IdleFrame EXCEPT !.pc = "done"]]
    /\ UNCHANGED now
    /\ UNCHANGED codecVars
    /\ UNCHANGED cpuVars
    /\ UNCHANGED calcVars

\* reset: CONTROL = 0x00, then CONTROL = 0x02; both writes do nothing in
\* simulation mode and raise when there is no MMIO object.
Reset(c) ==
    LET m1 == MemOnWrite(mem, REG_CONTROL, ZeroWord)
        d1 == DeviceOnWrite(dev, mem, REG_CONTROL, ZeroWord)
    IN  /\ call[c].pc = "idle"
        /\ IF simulation_mode
           THEN /\ UNCHANGED <<mem, dev>>
                /\ call' = [call EXCEPT ![c] = [IdleFrame EXCEPT !.pc = "done"]]
           ELSE IF mmio = "none"
           THEN /\ UNCHANGED <<mem, dev>>
                /\ call' = [call EXCEPT ![c] = [IdleFrame EXCEPT !.pc = "raised"]]
           ELSE /\ mem' = MemOnWrite(m1, REG_CONTROL, ControlEnable)
                /\ dev' = DeviceOnWrite(d1, m1, REG_CONTROL, ControlEnable)
                /\ call' = [call EXCEPT ![c] = [IdleFrame EXCEPT !.pc = "done"]]
        /\ UNCHANGED <<simulation_mode, mmio, now>>
        /\ UNCHANGED codecVars
        /\ UNCHANGED cpuVars
        /\ UNCHANGED calcVars

\* get_status
GetStatus(c) ==
    LET status == ReadReg(mem, REG_STATUS)
    IN  /\ call[c].pc = "idle"
        /\ call' = [call EXCEPT ![c] =
               IF simulation_mode
               THEN [IdleFrame EXCEPT
                        !.pc = "done",
                        !.ret = [mode |-> "simulation", ready |-> TRUE]]
               ELSE IF mmio = "none"
               THEN [IdleFrame EXCEPT !.pc = "raised"]
               ELSE [IdleFrame EXCEPT
                        !.pc = "done",
                        !.ret = [mode |-> "fpga",
                                 ready |-> Bit0(status),
                                 optimization_complete |-> Bit0(status),
                                 trade_signal_valid |-> Bit16(status),
                                 optimizer_busy |-> (status[1] \div 2) % 2 = 1,
                                 computations_per_sec |->
                                     WordVal(ReadReg(mem, REG_COMP_PER_SEC))]]]
        /\ UNCHANGED <<simulation_mode, mmio, mem, dev, now>>
        /\ UNCHANGED codecVars
        /\ UNCHANGED cpuVars
        /\ UNCHANGED calcVars

\* One thread constructs a driver and calls its methods in any order.
NextLifecycle ==
    \/ \E setup \in SetupOutcomes : LoadBitstream("c1", setup)
    \/ Reset("c1")
    \/ GetStatus("c1")
    \/ Optimize("c1", RequestA, 0)
    \/ SimulateReturn("c1")
    \/ WriteInput("c1")
    \/ WriteRaises("c1")
    \/ WriteControl("c1")
    \/ PollTimeout("c1")
    \/ Return("c1")
    \/ DeviceComplete
    \/ Tick

SpecLifecycle == InitDriver /\ [][NextLifecycle]_vars

\* C25: simulation mode is sticky: once simulation_mode is True no call of
\* load_bitstream, reset, get_status or optimize sets it back to False, and
\* every optimize call entered in simulation mode takes the software
\* fallback, also when the MMIO object exists.
C25_SimulationSticky ==
    /\ [][simulation_mode => simulation_mode']_vars
    /\ [][(simulation_mode /\ call["c1"].pc = "idle"
           /\ call'["c1"].pc \notin {"idle", "done", "raised"})
          => call'["c1"].pc = "sim"]_vars
    /\ [](simulation_mode =>
             /\ call["c1"].log = <<>>
             /\ call["c1"].pc \notin {"inputs", "control", "poll", "raised"})

\* A fallback result returned after a load_bitstream that succeeded.
C25_Witness ==
    /\ simulation_mode
    /\ mmio = "ok"
    /\ call["c1"].pc = "done"
    /\ call["c1"].ret = SimulatedOutcome(RequestA)

----------------------------------------------------------------------------
(* Claim C26: the decoder on any register contents.                        *)

RegisterWords ==
    {<<0, 0>>, <<0, 1>>, <<0, 32768>>, <<0, 65535>>, <<1, 0>>, <<32768, 0>>,
     <<65535, 32768>>, <<65535, 65535>>}

\* The core leaves some pair of words in the result price registers.
RegistersHold(h, l) ==
    /\ codec_pc = "start"
    /\ mem' = [mem EXCEPT ![REG_RESULT_PRICE_H] = h,
                          ![REG_RESULT_PRICE_L] = l]
    /\ codec_pc' = "held"
    /\ UNCHANGED <<simulation_mode, mmio, dev, now, call, price, decoded>>
    /\ UNCHANGED cpuVars
    /\ UNCHANGED calcVars

\* Line 236: _read_price on the result price registers.
DecodeHeld ==
    /\ codec_pc = "held"
    /\ decoded' = ReadPrice(mem, REG_RESULT_PRICE_H, REG_RESULT_PRICE_L)
    /\ codec_pc' = "decoded"
    /\ UNCHANGED <<price, driverVars>>
    /\ UNCHANGED cpuVars
    /\ UNCHANGED calcVars

NextDecode ==
    \/ CodecWrite
    \/ CodecRead
    \/ \E h \in RegisterWords, l \in RegisterWords : RegistersHold(h, l)
    \/ DecodeHeld

SpecDecode == InitCodec /\ [][NextDecode]_vars

\* A negative price that has a 48-bit two's-complement encoding: a multiple
\* of 2^-32 in [-2^16, 0).
Encodable(p) ==
    /\ p.neg
    /\ ~p.sub
    /\ p.ip < Limb \/ (p.ip = Limb /\ p.fh = 0 /\ p.fl = 0)

\* d - p = 2^16 for a negative p, added limb by limb.
Plus2Pow16(p, d) ==
    LET c1 == IF d.fl + p.fl = 0 THEN 0 ELSE 1
        c2 == IF d.fh + p.fh + c1 = 0 THEN 0 ELSE 1
    IN  /\ d.fl + p.fl \in {0, Limb}
        /\ d.fh + p.fh + c1 \in {0, Limb}
        /\ d.ip + p.ip + c2 = Limb

\* C26: the decoder never returns a negative price: whatever the two
\* registers hold it takes the low 16 bits of the high word, without sign
\* extension, and returns a value in [0, 2^16); the encoding of a negative
\* price p decodes to p + 2^16.
C26_DecoderNeverNegative ==
    /\ codec_pc \in {"read", "decoded"} =>
           /\ ~decoded.neg
           /\ decoded.ip \in 0 .. Limb - 1
           /\ decoded.fh \in 0 .. Limb - 1
           /\ decoded.fl \in 0 .. Limb - 1
    /\ codec_pc = "decoded" =>
           /\ decoded.ip = mem[REG_RESULT_PRICE_H][2]
           /\ <<decoded.fh, decoded.fl>> = mem[REG_RESULT_PRICE_L]
    /\ (codec_pc = "read" /\ Encodable(price)) => Plus2Pow16(price, decoded)

\* -1.5 written and read back as 65534.5.
C26_Witness ==
    /\ codec_pc = "read"
    /\ price = [neg |-> TRUE, ip |-> 1, fh |-> 32768, fl |-> 0, sub |-> FALSE]
    /\ decoded = [neg |-> FALSE, ip |-> 65534, fh |-> 32768, fl |-> 0,
                  sub |-> FALSE]

----------------------------------------------------------------------------
(* An HFTOptimizer used through all four of its methods.                   *)

\* get_performance_stats
get_performance_stats ==
    LET total_ops == performance_stats["base12_operations"]
                     + performance_stats["base10_operations"]
                     + performance_stats["base2_operations"]
    IN  IF total_ops = 0
        THEN performance_stats
        ELSE [base12_operations |-> performance_stats["base12_operations"],
              base10_operations |-> performance_stats["base10_operations"],
              base2_operations |-> performance_stats["base2_operations"],
              total_savings_cycles |->
                  performance_stats["total_savings_cycles"],
              total_operations |-> total_ops,
              base12_percentage |->
                  Norm(<<100 * performance_stats["base12_operations"],
                         total_ops>>),
              base10_percentage |->
                  Norm(<<100 * performance_stats["base10_operations"],
                         total_ops>>),
              base2_percentage |->
                  Norm(<<100 * performance_stats["base2_operations"],
                         total_ops>>)]

GetPerformanceStats ==
    /\ stats' = get_performance_stats
    /\ UNCHANGED <<value, base, performance_stats, result, request>>
    /\ UNCHANGED driverVars
    /\ UNCHANGED codecVars
    /\ UNCHANGED calcVars

UseSizings ==
    {[entry_price |-> <<100, 1>>, risk_limit |-> <<100000, 1>>,
      confidence |-> <<171, 2>>, volatility |-> <<1, 50>>],
     [entry_price |-> <<3, 1>>, risk_limit |-> <<1000, 1>>,
      confidence |-> <<50, 1>>, volatility |-> <<1, 1>>]}

UseDepths ==
    {[quantity |-> 4, spread |-> <<3, 100>>, market_depth |-> 1],
     [quantity |-> 1, spread |-> <<1, 1>>, market_depth |-> 0]}

\* calculate_optimal_quantity called on an optimizer in use
SizeOrder(a) ==
    /\ sizing' = a
    /\ optimal_quantity' =
           calculate_optimal_quantity(a.entry_price, a.risk_limit,
                                      a.confidence, a.volatility)
    /\ UNCHANGED <<dozenal_str, parsed, depth, slippage, calc_pc>>
    /\ UNCHANGED driverVars
    /\ UNCHANGED codecVars
    /\ UNCHANGED cpuVars

\* estimate_slippage called on an optimizer in use
SlipOrder(a) ==
    /\ depth' = a
    /\ slippage' = estimate_slippage(a.quantity, a.spread, a.market_depth)
    /\ UNCHANGED <<dozenal_str, parsed, sizing, optimal_quantity, calc_pc>>
    /\ UNCHANGED driverVars
    /\ UNCHANGED codecVars
    /\ UNCHANGED cpuVars

NextUse ==
    \/ \E b \in BidCents, s \in SpreadCents, strategy \in Strategies :
           optimize_price_levels(Cents(b), Cents(b + s), Cents(b), strategy)
    \/ \E a \in UseSizings : SizeOrder(a)
    \/ \E a \in UseDepths : SlipOrder(a)
    \/ GetPerformanceStats

SpecUse == InitPricing /\ [][NextUse]_vars

\* C27: total_savings_cycles is 0 in every reachable state of an
\* HFTOptimizer, in its statistics and in what get_performance_stats
\* returns, whatever calls are made, although Dozenal results report
\* cycles_saved = 15 and Binary results 20.
C27_SavingsNeverCounted ==
    /\ performance_stats["total_savings_cycles"] = 0
    /\ stats # NoStats => stats["total_savings_cycles"] = 0
    /\ result.base_used = DOZENAL => result.cycles_saved = 15
    /\ result.base_used = BINARY => result.cycles_saved = 20

\* Two calls counted, the last reporting 20 cycles saved, sizing and
\* slippage computed, and the statistics read afterwards.
C27_Witness ==
    /\ result.base_used = BINARY
    /\ result.cycles_saved = 20
    /\ performance_stats["base12_operations"] = 1
    /\ stats # NoStats
    /\ stats = get_performance_stats
    /\ stats["total_operations"] = 2
    /\ optimal_quantity > 0
    /\ depth # NoDepth

----------------------------------------------------------------------------
(* Claim C28: optimize with no time to wait.                               *)

\* C28: a hardware-mode call with timeout_ms <= 0 writes every input
\* register and CONTROL = 0x03, then returns the timeout outcome without a
\* single STATUS read, also when STATUS already shows completion.
C28_ZeroTimeoutNeverPolls ==
    LET f == call["c1"]
    IN  (HardwareMode /\ f.pc # "idle" /\ f.timeout_ms <= 0) =>
            /\ f.polls = 0
            /\ \A i \in DOMAIN f.log : f.log[i][1] = "w"
            /\ f.pc \in {"inputs", "control", "poll", "done"}
            /\ f.pc = "done" =>
                   /\ f.ret = TimeoutOutcome
                   /\ Len(f.log) = Cardinality(InputRegs) + 1
                   /\ \A r \in InputRegs : WritesTo(f.log, r) = 1
                   /\ f.log[Len(f.log)] = <<"w", REG_CONTROL, <<0, 3>>>>

\* The timeout outcome returned while STATUS has bit 0 set.
C28_Witness ==
    LET f == call["c1"]
    IN  /\ HardwareMode
        /\ f.pc = "done"
        /\ f.timeout_ms = -1
        /\ Bit0(mem[REG_STATUS])
        /\ f.ret = TimeoutOutcome
        /\ Len(f.log) = 13

====
